---------------------------- MODULE Spec2Model ----------------------------
(***************************************************************************)
(* A model of the Cell / Bag-of-Cells codec (src/unnamed/part_001):        *)
(* Cell.finalize (hash/depth engine), getHash/getDepth, getLevelMask,      *)
(* toBoc (dedup walk, ordering fix-up, encoder) and fromBoc (header        *)
(* parser, node decoder).                                                  *)
(*                                                                         *)
(* Bytes are integers 0..255, byte strings are sequences.  JavaScript's    *)
(* undefined, null and NaN are the values Undefined, Null (byte strings)   *)
(* and NaN, UndefD (numbers).  Array positions that are 0-based in the     *)
(* source stay 0-based in the stored values (reference indices, assigned   *)
(* serialization indices); cells of the heap are named by 1-based ids.     *)
(***************************************************************************)
EXTENDS Integers, Sequences, FiniteSets, TLC

VARIABLES heap, last, boc, dec, calls

vars == <<heap, last, boc, dec, calls>>

-----------------------------------------------------------------------------
(* Bounds of the model *)

MaxCells == 4
MaxRefs == 2
MaxHeap == 3
MaxReadCells == 2
MaxChain == 1027
MaxWide == 256
MaxDecodeCells == 3
MaxPasses == 4
MaxTail == 3
MaxSizeBytes == 2
MaxOffBytes == 3
MaxTreeCells == 3
MaxCalls == 2
MaxWaiting == 2
MaxWriteCells == 2
MaxWrittenBits == 10
MaxWrittenRefs == 3
StackCalls == 8

-----------------------------------------------------------------------------
(* Program constants *)

hash_bytes == 32
depth_bytes == 2
OrdinaryCell == 255
PrunnedBranchCell == 1
LibraryCell == 2
MerkleProofCell == 3
MerkleUpdateCell == 4
MaxDepth == 1024

reachBocMagicPrefix == <<181, 238, 156, 114>>
leanBocMagicPrefix == <<104, 255, 101, 243>>
leanBocMagicPrefixCRC == <<172, 195, 167, 40>>

(* JavaScript values that are not byte strings / numbers *)
Undefined == <<-1>>
Null == <<-2>>
UndefD == -1
NaN == -2

-----------------------------------------------------------------------------
(* Generic helpers: loops of the source are folds; the folds split their   *)
(* range in halves so that the evaluation depth stays logarithmic.         *)

Min2(a, b) == IF a < b THEN a ELSE b
Max2(a, b) == IF a > b THEN a ELSE b

RECURSIVE Pow2(_)
Pow2(n) == IF n = 0 THEN 1 ELSE 2 * Pow2(n - 1)

SubSeqFrom(s, i) == IF i > Len(s) THEN <<>> ELSE SubSeq(s, i, Len(s))

RECURSIVE Flatten(_, _, _)
Flatten(ss, lo, hi) ==
    IF lo > hi THEN <<>>
    ELSE IF lo = hi THEN ss[lo]
    ELSE LET mid == (lo + hi) \div 2
         IN Flatten(ss, lo, mid) \o Flatten(ss, mid + 1, hi)

ConcatAll(ss) == Flatten(ss, 1, Len(ss))

(* a sequence given by a rule, with every element computed once *)
Tuple(f) == SubSeq(f, 1, Len(f))

RECURSIVE SumRange(_, _, _)
SumRange(f, lo, hi) ==
    IF lo > hi THEN 0
    ELSE IF lo = hi THEN f[lo]
    ELSE LET mid == (lo + hi) \div 2
         IN SumRange(f, lo, mid) + SumRange(f, mid + 1, hi)

RECURSIVE MaxRange(_, _, _)
MaxRange(f, lo, hi) ==
    IF lo > hi THEN 0
    ELSE IF lo = hi THEN f[lo]
    ELSE LET mid == (lo + hi) \div 2
         IN Max2(MaxRange(f, lo, mid), MaxRange(f, mid + 1, hi))

(* bitwise operations on bytes *)
Bit(a, i) == (a \div Pow2(i)) % 2

BitOr8(a, b) ==
    SumRange([i \in 0..7 |-> Pow2(i) * Max2(Bit(a, i), Bit(b, i))], 0, 7)

BitXor8(a, b) ==
    SumRange([i \in 0..7 |-> Pow2(i) * ((Bit(a, i) + Bit(b, i)) % 2)], 0, 7)

XorTable == [a \in 0..255 |-> [b \in 0..255 |-> BitXor8(a, b)]]

Xor(a, b) == XorTable[a][b]

-----------------------------------------------------------------------------
(* Collaborators of the codec (utils, BitString, Buffer): not part of the   *)
(* codec's own source file; modelled at their interface.                    *)

IsBytes(x) == x # Undefined /\ x # Null

(* concatBytes(a, b): a new array of a.length + b.length bytes; reading     *)
(* .length of null or undefined is a TypeError, reported as Undefined.      *)
concatBytes(a, b) == IF IsBytes(a) /\ IsBytes(b) THEN a \o b ELSE Undefined

(* compareBytes(a, b): a.toString() === b.toString() on byte arrays.        *)
compareBytes(a, b) == a = b

(* readNBytesUIntFromArray(n, a): big-endian unsigned read of n bytes; with *)
(* n undefined the loop body never runs (0); a read past the end adds       *)
(* undefined, which gives NaN.                                              *)
RECURSIVE ReadBE(_, _, _)
ReadBE(a, lo, hi) ==
    IF lo > hi THEN 0
    ELSE IF lo = hi THEN a[lo]
    ELSE LET mid == (lo + hi) \div 2
         IN ReadBE(a, lo, mid) * Pow2(8 * (hi - mid)) + ReadBE(a, mid + 1, hi)

readNBytesUIntFromArray(n, a) ==
    IF n = UndefD \/ n = NaN \/ n = 0 THEN 0
    ELSE IF n > Len(a) THEN NaN
    ELSE ReadBE(a, 1, n)

(* a.slice(k) and a.slice(0, k) of a Uint8Array: a start that is undefined  *)
(* or NaN is 0, an end that is undefined is the length, an end that is NaN  *)
(* is 0.                                                                    *)
SliceFrom(a, k) ==
    IF k = UndefD \/ k = NaN THEN a ELSE SubSeqFrom(a, k + 1)

SliceTo(a, k) ==
    IF k = UndefD THEN a
    ELSE IF k = NaN THEN <<>>
    ELSE SubSeq(a, 1, Min2(k, Len(a)))

(* The 32-byte digest.  SHA-256 itself is outside the model: the digest is  *)
(* a deterministic 32-byte function of the message that keeps its length    *)
(* and three position-weighted sums, so that the messages of the model have *)
(* different digests (see DigestsDistinct).                                 *)
sha256(m) ==
    LET n == Len(m)
        a == SumRange([i \in 1..n |-> m[i]], 1, n)
        b == SumRange([i \in 1..n |-> i * m[i]], 1, n)
        c == SumRange([i \in 1..n |-> ((i * i) % 251) * m[i]], 1, n)
    IN [k \in 1..hash_bytes |->
          CASE k = 1 -> n % 256
            [] k = 2 -> a % 256
            [] k = 3 -> (a \div 256) % 256
            [] k = 4 -> b % 256
            [] k = 5 -> (b \div 256) % 256
            [] k = 6 -> (b \div 65536) % 256
            [] k = 7 -> c % 256
            [] k = 8 -> (c \div 256) % 256
            [] k = 9 -> (c \div 65536) % 256
            [] OTHER -> ((a % 256) * k + (b % 256) * (k + 3) + (c % 256) + n + k * k) % 256]

(* CRC32c (Castagnoli, reflected polynomial 82F63B78), the register kept as *)
(* four bytes, least significant first; the result is the little-endian     *)
(* byte order utils.crc32c returns.                                         *)
CrcPoly == <<120, 59, 246, 130>>

CrcShr1(r) ==
    <<(r[1] \div 2) + 128 * (r[2] % 2), (r[2] \div 2) + 128 * (r[3] % 2),
      (r[3] \div 2) + 128 * (r[4] % 2), r[4] \div 2>>

Xor4(r, q) == <<Xor(r[1], q[1]), Xor(r[2], q[2]), Xor(r[3], q[3]), Xor(r[4], q[4])>>

CrcBitStep(r) == IF r[1] % 2 = 1 THEN Xor4(CrcShr1(r), CrcPoly) ELSE CrcShr1(r)

RECURSIVE CrcBits(_, _)
CrcBits(r, k) == IF k = 0 THEN r ELSE CrcBits(CrcBitStep(r), k - 1)

CrcTable == [i \in 0..255 |-> CrcBits(<<i, 0, 0, 0>>, 8)]

CrcByte(r, byte) ==
    Xor4(CrcTable[Xor(r[1], byte)], <<r[2], r[3], r[4], 0>>)

RECURSIVE CrcFold(_, _, _, _)
CrcFold(r, a, lo, hi) ==
    IF lo > hi THEN r
    ELSE IF lo = hi THEN CrcByte(r, a[lo])
    ELSE LET mid == (lo + hi) \div 2
             left == CrcFold(r, a, lo, mid)
         IN IF Len(left) = 4 THEN CrcFold(left, a, mid + 1, hi) ELSE left

crc32c(a) ==
    Xor4(CrcFold(<<255, 255, 255, 255>>, a, 1, Len(a)), <<255, 255, 255, 255>>)

(* Buffer.prototype.toString(): UTF-8 decoding with U+FFFD for every        *)
(* maximal invalid subsequence (the WHATWG decoder).  The result is the     *)
(* sequence of code points.                                                 *)
Replacement == 65533

Utf8Need(b) ==
    IF b < 128 THEN 0
    ELSE IF b >= 194 /\ b <= 223 THEN 1
    ELSE IF b >= 224 /\ b <= 239 THEN 2
    ELSE IF b >= 240 /\ b <= 244 THEN 3
    ELSE -1

Utf8Lower(b) == IF b = 224 THEN 160 ELSE IF b = 240 THEN 144 ELSE 128
Utf8Upper(b) == IF b = 237 THEN 159 ELSE IF b = 244 THEN 143 ELSE 191

Utf8Lead(b) ==
    IF b < 224 THEN b % 32 ELSE IF b < 240 THEN b % 16 ELSE b % 8

RECURSIVE Utf8Dec(_, _, _, _, _, _, _)
Utf8Dec(a, i, need, cp, lower, upper, out) ==
    IF i > Len(a) THEN (IF need > 0 THEN Append(out, Replacement) ELSE out)
    ELSE LET b == a[i] IN
      IF need = 0 THEN
         IF Utf8Need(b) = 0 THEN Utf8Dec(a, i + 1, 0, 0, 128, 191, Append(out, b))
         ELSE IF Utf8Need(b) = -1
              THEN Utf8Dec(a, i + 1, 0, 0, 128, 191, Append(out, Replacement))
         ELSE Utf8Dec(a, i + 1, Utf8Need(b), Utf8Lead(b), Utf8Lower(b), Utf8Upper(b), out)
      ELSE IF b < lower \/ b > upper
           THEN Utf8Dec(a, i, 0, 0, 128, 191, Append(out, Replacement))
      ELSE IF need = 1
           THEN Utf8Dec(a, i + 1, 0, 0, 128, 191, Append(out, cp * 64 + (b % 64)))
      ELSE Utf8Dec(a, i + 1, need - 1, cp * 64 + (b % 64), 128, 191, out)

BufferToString(a) == Utf8Dec(a, 1, 0, 0, 128, 191, <<>>)

(* BitString: the payload is its bytes (unused low bits of the last byte    *)
(* are 0) and cursor, the number of bits written; length is that number.    *)
EmptyBits == [data |-> <<>>, cursor |-> 0]

BitsOf(bytes) == [data |-> bytes, cursor |-> 8 * Len(bytes)]

bitsLength(b) == b.cursor

readUint8(b, pos) ==
    IF pos + 8 <= 8 * Len(b.data) THEN b.data[(pos \div 8) + 1] ELSE UndefD

readUint16(b, pos) ==
    IF pos + 16 <= 8 * Len(b.data)
    THEN b.data[(pos \div 8) + 1] * 256 + b.data[(pos \div 8) + 2]
    ELSE UndefD

getRange(b, pos, n) ==
    IF pos + n <= 8 * Len(b.data)
    THEN SubSeq(b.data, (pos \div 8) + 1, (pos + n) \div 8)
    ELSE Undefined

getTopUppedArray(b) ==
    IF b.cursor % 8 = 0 THEN b.data
    ELSE [b.data EXCEPT ![Len(b.data)] = @ + Pow2(7 - (b.cursor % 8))]

(* the lowest set bit among bits 0..6 of the last byte, or -1 *)
EndBit(byte) ==
    IF \E c \in 0..6 : Bit(byte, c) = 1
    THEN CHOOSE c \in 0..6 : Bit(byte, c) = 1 /\ \A e \in 0..(c - 1) : Bit(byte, e) = 0
    ELSE -1

setTopUppedArray(array, fullfilledBytes) ==
    IF fullfilledBytes \/ Len(array) = 0
    THEN [ok |-> TRUE, bits |-> BitsOf(array)]
    ELSE LET lastb == array[Len(array)]
             c == EndBit(lastb)
         IN IF c = -1 THEN [ok |-> FALSE, bits |-> BitsOf(array)]
            ELSE [ok |-> TRUE,
                  bits |-> [data |-> [array EXCEPT ![Len(array)] = lastb - Pow2(c)],
                            cursor |-> 8 * Len(array) - 1 - c]]

-----------------------------------------------------------------------------
(* Cell *)

(* new Cell(): the constructor's fields.  fin and err are history fields of *)
(* the model: fin is "new" until finalize has run, then "ok" or "failed",   *)
(* and err is the error that finalize threw.                                *)
NewCellRec(bits, refs, isExotic) ==
    [bits |-> bits, refs |-> refs, isExotic |-> isExotic, type |-> OrdinaryCell,
     proof |-> FALSE, hasHashes |-> FALSE, levelMask |-> 0,
     hashes |-> <<>>, depth |-> <<>>, fin |-> "new", err |-> ""]

getLevelFromMask(mask) ==
    IF mask = 0 THEN 0
    ELSE IF mask \div 2 = 0 THEN 1
    ELSE IF mask \div 4 = 0 THEN 2
    ELSE 3

getHashesCountFromMask(mask) == Bit(mask, 0) + Bit(mask, 1) + Bit(mask, 2) + 1

getLevel(c) == getLevelFromMask(c.levelMask % 8)

getHashesCount(c) == getHashesCountFromMask(c.levelMask % 8)

isLevelSignificant(c, level) == level = 0 \/ Bit(c.levelMask, level - 1) = 1

applyLevelMask(c, level) == c.levelMask % Pow2(level)

At(s, i) == IF i + 1 \in DOMAIN s THEN s[i + 1] ELSE Undefined

AtD(s, i) == IF i + 1 \in DOMAIN s THEN s[i + 1] ELSE UndefD

(* s[i] = v of an array: an index past the end leaves holes before it *)
StoreAt(s, i, v, hole) ==
    [j \in 1..Max2(Len(s), i + 1) |-> IF j = i + 1 THEN v ELSE IF j <= Len(s) THEN s[j] ELSE hole]

getHash_Embedded(c, level) ==
    LET hash_i == getHashesCountFromMask(applyLevelMask(c, level)) - 1
    IN IF c.type = PrunnedBranchCell
       THEN getRange(c.bits, 16 + hash_i * hash_bytes * 8, 256)
       ELSE At(c.hashes, hash_i)

getHash(c, level) ==
    LET hash_i == getHashesCountFromMask(applyLevelMask(c, level)) - 1
        this_hash_i == getHashesCount(c) - 1
    IN IF c.type = PrunnedBranchCell
       THEN IF hash_i # this_hash_i
            THEN getRange(c.bits, 16 + hash_i * hash_bytes * 8, 256)
            ELSE At(c.hashes, 0)
       ELSE At(c.hashes, hash_i)

getDepth(c, level) ==
    LET hash_i == getHashesCountFromMask(applyLevelMask(c, level)) - 1
        this_hash_i == getHashesCount(c) - 1
    IN IF c.type = PrunnedBranchCell
       THEN IF hash_i # this_hash_i
            THEN readUint16(c.bits, 16 + this_hash_i * hash_bytes * 8 + hash_i * depth_bytes * 8)
            ELSE AtD(c.depth, 0)
       ELSE AtD(c.depth, hash_i)

(* depthToArray: two bytes, big-endian; a NaN or undefined depth stores 0. *)
depthToArray(depth) ==
    IF depth < 0 THEN <<0, 0>> ELSE <<(depth \div 256) % 256, depth % 256>>

(* getRefsDescriptor(levelMask) with the level mask given *)
getRefsDescriptor(c, levelMask) ==
    (Len(c.refs) + (IF c.isExotic THEN 8 ELSE 0)
       + (IF c.proof THEN 0 ELSE levelMask) * 32) % 256

getBitsDescriptor_Ceil(c) ==
    (2 * ((c.bits.cursor + 7) \div 8)) % 256

getBitsDescriptor(c) ==
    (((c.bits.cursor + 7) \div 8) + (c.bits.cursor \div 8)) % 256

-----------------------------------------------------------------------------
(* Cell.finalize.  h is the heap (a sequence of cells, references are ids   *)
(* of the heap; an id outside the heap is an undefined object), id the cell *)
(* being finalized.  The result is the cell as finalize leaves it and the   *)
(* error it threw ("" when it returned).  A child is read from the heap     *)
(* with the cell's own current fields in place, as the code reads           *)
(* this.refs[k] while it writes this.                                       *)

Res(c, err) == [cell |-> c, err |-> err]

IsObj(h, r) == r \in DOMAIN h

(* levelMask |= refs[k].levelMask for k = from..Len(refs), stopping with a  *)
(* TypeError at a reference that is no object                               *)
RECURSIVE OrChildMasks(_, _, _, _)
OrChildMasks(h, c, k, mask) ==
    IF k > Len(c.refs) THEN [mask |-> mask, err |-> ""]
    ELSE IF ~IsObj(h, c.refs[k]) THEN [mask |-> mask, err |-> "TypeError"]
    ELSE OrChildMasks(h, c, k + 1, BitOr8(mask, h[c.refs[k]].levelMask % 256))

FinOrdinary(h, id) ==
    LET c == h[id] IN
    IF c.proof THEN Res(c, "")
    ELSE LET r == OrChildMasks(h, c, 1, c.levelMask)
         IN Res([c EXCEPT !.levelMask = r.mask], r.err)

FinPrunned(h, id) ==
    LET c == h[id] IN
    IF Len(c.refs) # 0 THEN Res(c, "PrunnedBranch special cell has a cell reference")
    ELSE IF bitsLength(c.bits) < 16
         THEN Res(c, "Not enough data for a PrunnedBranch special cell")
    ELSE LET c1 == [c EXCEPT !.levelMask = readUint8(c.bits, 8)]
             level == getLevel(c1)
             hashes == getHashesCountFromMask(applyLevelMask(c1, level - 1))
         IN IF level > 3 \/ level = 0
            THEN Res(c1, "Prunned Branch has an invalid level")
            ELSE IF bitsLength(c1.bits) < (2 + hashes * (hash_bytes + depth_bytes)) * 8
                 THEN Res(c1, IF IsBytes(getHash(c1, 0))
                              THEN "Not enouch data for a PrunnedBranch special cell"
                              ELSE "TypeError")
            ELSE Res(c1, "")

FinLibrary(h, id) ==
    LET c == h[id] IN
    IF bitsLength(c.bits) # 8 + hash_bytes * 8
    THEN Res(c, "Not enouch data for a Library special cell")
    ELSE Res(c, "")

FinMerkleProof_NoDepthCheck(h, id) ==
    LET c == h[id] IN
    IF bitsLength(c.bits) # 8 + (hash_bytes + depth_bytes) * 8
    THEN Res(c, "Not enouch data for a MerkleProof special cell")
    ELSE IF Len(c.refs) # 1
         THEN Res(c, "Wrong references count for a MerkleProof special cell")
    ELSE IF ~IsObj(h, c.refs[1]) THEN Res(c, "TypeError")
    ELSE LET child == h[c.refs[1]]
             merkleHash == getRange(c.bits, 8, hash_bytes * 8)
             childHash == getHash(child, 0)
         IN IF ~IsBytes(childHash) THEN Res(c, "TypeError")
            ELSE IF ~compareBytes(merkleHash, childHash)
                 THEN Res(c, "Hash mismatch in a MerkleProof special cell")
            ELSE Res([c EXCEPT !.levelMask = child.levelMask \div 2], "")

FinMerkleProof(h, id) ==
    LET c == h[id] IN
    IF bitsLength(c.bits) # 8 + (hash_bytes + depth_bytes) * 8
    THEN Res(c, "Not enouch data for a MerkleProof special cell")
    ELSE IF Len(c.refs) # 1
         THEN Res(c, "Wrong references count for a MerkleProof special cell")
    ELSE IF ~IsObj(h, c.refs[1]) THEN Res(c, "TypeError")
    ELSE LET child == h[c.refs[1]]
             merkleHash == getRange(c.bits, 8, hash_bytes * 8)
             childHash == getHash(child, 0)
         IN IF ~IsBytes(childHash) THEN Res(c, "TypeError")
            ELSE IF ~compareBytes(merkleHash, childHash)
                 THEN Res(c, "Hash mismatch in a MerkleProof special cell")
            ELSE IF readUint16(c.bits, 8 + hash_bytes * 8) # getDepth(child, 0)
                 THEN Res(c, "Depth mismatch in a MerkleProof special cell")
            ELSE Res([c EXCEPT !.levelMask = child.levelMask \div 2], "")

FinMerkleUpdate(h, id) ==
    LET c == h[id] IN
    IF bitsLength(c.bits) # 8 + (hash_bytes + depth_bytes) * 8 * 2
    THEN Res(c, "Not enouch data for a MerkleUpdate special cell")
    ELSE IF Len(c.refs) # 2
         THEN Res(c, "Wrong references count for a MerkleUpdate special cell")
    ELSE IF ~IsObj(h, c.refs[1]) THEN Res(c, "TypeError")
    ELSE LET child0 == h[c.refs[1]]
             merkleHash0 == getRange(c.bits, 8, hash_bytes * 8)
             childHash0 == getHash(child0, 0)
         IN IF ~IsBytes(childHash0) THEN Res(c, "TypeError")
            ELSE IF ~compareBytes(merkleHash0, childHash0)
                 THEN Res(c, "First hash mismatch in a MerkleUpdate special cell")
            ELSE IF ~IsObj(h, c.refs[2]) THEN Res(c, "TypeError")
            ELSE LET child1 == h[c.refs[2]]
                     merkleHash1 == getRange(c.bits, 8 + hash_bytes * 8, hash_bytes * 8)
                     childHash1 == getHash(child1, 0)
                 IN IF ~IsBytes(childHash1) THEN Res(c, "TypeError")
                    ELSE IF ~compareBytes(merkleHash1, childHash1)
                         THEN Res(c, "Second hash mismatch in a MerkleUpdate special cell")
                    ELSE IF readUint16(c.bits, 8 + 16 * hash_bytes) # getDepth(child0, 0)
                         THEN Res(c, "First depth mismatch in a MerkleUpdate special cell")
                    ELSE IF readUint16(c.bits, 8 + 16 * hash_bytes + depth_bytes * 8)
                              # getDepth(child1, 0)
                         THEN Res(c, "Second depth mismatch in a MerkleUpdate special cell")
                    ELSE Res([c EXCEPT !.levelMask =
                                 BitOr8(child0.levelMask % 256, child1.levelMask % 256) \div 2],
                             "")

(* the switch on the cell's type (h[id].type is set) *)
FinSwitch(h, id) ==
    LET type == h[id].type IN
    CASE type = OrdinaryCell -> FinOrdinary(h, id)
      [] type = PrunnedBranchCell -> FinPrunned(h, id)
      [] type = LibraryCell -> FinLibrary(h, id)
      [] type = MerkleProofCell -> FinMerkleProof(h, id)
      [] type = MerkleUpdateCell -> FinMerkleUpdate(h, id)
      [] OTHER -> Res(h[id], "Unknown special cell type")

IsMerkle(type) == type = MerkleProofCell \/ type = MerkleUpdateCell

(* the level at which a cell of this type reads its children *)
ChildLevel(type, level_i) == IF IsMerkle(type) THEN level_i + 1 ELSE level_i

(* Math.max over the children's depths, NaN as soon as one is undefined *)
MaxChildDepth(h, c, cl) ==
    LET n == Len(c.refs)
        d == [k \in 1..n |-> getDepth(h[c.refs[k]], cl)]
    IN IF \E k \in 1..n : d[k] < 0 THEN NaN ELSE MaxRange(d, 1, n)

SlotDepth_NoIncrement(m) == m

(* the depth finalize stores for children of maximal depth m *)
SlotDepth(m) == IF m = NaN THEN NaN ELSE m + 1

(* depth >= 1024 before the increment *)
DepthTooBig(m) == m # NaN /\ m >= MaxDepth

(* finalize is an async function: it runs from the call to its first        *)
(* `await sha256(repr)`, and from each digest to the next wait or to its    *)
(* end.  What a run leaves: the cell, the error it threw ("" when none),    *)
(* where it stands (pc: "digest" waiting for a digest, "done", "failed"),   *)
(* and, while it waits, the loop's variables and the digest on its way.     *)
FinStop(c, err) ==
    [cell |-> c, err |-> err, pc |-> IF err = "" THEN "done" ELSE "failed",
     level_i |-> 0, hash_i |-> 0, offset |-> 0, level |-> 0, digest |-> <<>>,
     reset |-> FALSE]

FinWait(c, level_i, hash_i, hash_i_offset, level, digest) ==
    [cell |-> c, err |-> "", pc |-> "digest",
     level_i |-> level_i, hash_i |-> hash_i, offset |-> hash_i_offset, level |-> level,
     digest |-> digest, reset |-> FALSE]

(* the variables of a call that waits: those of the loop, the digest it     *)
(* waits for, and whether the array it will write is the cell's             *)
WaitAt(w) ==
    [level_i |-> w.level_i, hash_i |-> w.hash_i, offset |-> w.offset, level |-> w.level,
     digest |-> w.digest, own |-> TRUE]

(* a finalize call on cell id has replaced the cell's arrays: the calls     *)
(* that wait for a digest of that cell hold the arrays it had               *)
WaitsOn(call, id) ==
    IF call.kind = "finalize" THEN call.id = id
    ELSE call.pc = "digest" /\ call.stack[Len(call.stack)].id = id

Orphaned(cs, id, reset) ==
    [t \in DOMAIN cs |->
        IF reset /\ WaitsOn(cs[t], id) THEN [cs[t] EXCEPT !.at.own = FALSE] ELSE cs[t]]

(* one significant level of the loop, slot hash_i - hash_i_offset, up to    *)
(* `await sha256(repr)`: the depth of the slot is written, the digest is    *)
(* that of repr                                                             *)
FinSlot(h, id, level_i, hash_i, hash_i_offset, level) ==
    LET c == h[id]
        type == c.type
        n == Len(c.refs)
        d1 == getRefsDescriptor(c, applyLevelMask(c, level_i))
        d2 == getBitsDescriptor(c)
        dest_i == hash_i - hash_i_offset
        cl == ChildLevel(type, level_i)
        own == IF hash_i = hash_i_offset THEN getTopUppedArray(c.bits)
               ELSE At(c.hashes, dest_i - 1)
        m == MaxChildDepth(h, c, cl)
        depth == IF n # 0 THEN SlotDepth(m) ELSE 0
        c1 == [c EXCEPT !.depth = StoreAt(@, dest_i, depth, UndefD)]
        cdepths == ConcatAll([k \in 1..n |-> depthToArray(getDepth(h[c.refs[k]], cl))])
        (* the children are read again after this.depth[dest_i] is written *)
        h1 == [h EXCEPT ![id] = c1]
        chashes == [k \in 1..n |-> getHash(h1[c.refs[k]], cl)]
        repr == <<d1, d2>> \o own \o cdepths \o ConcatAll(chashes)
    IN IF hash_i = hash_i_offset /\ level_i # 0 /\ type # PrunnedBranchCell
       THEN FinStop(c, "Cannot deserialize cell")
       ELSE IF hash_i # hash_i_offset /\ (level_i = 0 \/ type = PrunnedBranchCell)
            THEN FinStop(c, "Cannot deserialize cell")
       ELSE IF ~IsBytes(own) THEN FinStop(c, "TypeError")
       ELSE IF \E k \in 1..n : ~IsObj(h, c.refs[k]) THEN FinStop(c, "TypeError")
       ELSE IF n # 0 /\ DepthTooBig(m) THEN FinStop(c, "Depth is too big")
       ELSE IF \E k \in 1..n : ~IsBytes(chashes[k]) THEN FinStop(c1, "TypeError")
       ELSE FinWait(c1, level_i, hash_i, hash_i_offset, level, sha256(repr))

(* the loop from level_i to its next wait; level is this.getLevel() as it   *)
(* was when the loop began                                                  *)
RECURSIVE FinLoop(_, _, _, _, _, _)
FinLoop(h, id, level_i, hash_i, hash_i_offset, level) ==
    LET c == h[id] IN
    IF level_i > level THEN FinStop(c, "")
    ELSE IF ~isLevelSignificant(c, level_i)
         THEN FinLoop(h, id, level_i + 1, hash_i, hash_i_offset, level)
    ELSE IF hash_i < hash_i_offset
         THEN FinLoop(h, id, level_i + 1, hash_i + 1, hash_i_offset, level)
    ELSE FinSlot(h, id, level_i, hash_i, hash_i_offset, level)

FinTypeErr(c) ==
    IF ~c.isExotic THEN ""
    ELSE IF bitsLength(c.bits) < 8 THEN "Not enough data for a special cell"
    ELSE IF readUint8(c.bits, 0) = OrdinaryCell THEN "Special cell has Ordinary type"
    ELSE ""

FinType(c) == IF c.isExotic THEN readUint8(c.bits, 0) ELSE OrdinaryCell

(* this.hashes and this.depth become new arrays (reset tells that they      *)
(* did), then the loop runs to its first wait                               *)
FinReset(h, id, c2, hash_count, hash_i_offset) ==
    [FinLoop([h EXCEPT ![id] = [c2 EXCEPT !.hashes = [i \in 1..hash_count |-> Null],
                                          !.depth = [i \in 1..hash_count |-> 0]]],
             id, 0, 0, hash_i_offset, getLevel(c2))
       EXCEPT !.reset = TRUE]

FinCounts(h, id, c2, total_hash_count) ==
    FinReset(h, id, c2,
             IF c2.type = PrunnedBranchCell THEN 1 ELSE total_hash_count,
             IF c2.type = PrunnedBranchCell THEN total_hash_count - 1 ELSE 0)

FinSwitched(h, id, sw) ==
    IF sw.err # "" THEN FinStop(sw.cell, sw.err)
    ELSE FinCounts(h, id, sw.cell, getHashesCount(sw.cell))

(* finalize() from the call to its first wait *)
FinBegin(h, id) ==
    IF FinTypeErr(h[id]) # "" THEN FinStop(h[id], FinTypeErr(h[id]))
    ELSE FinSwitched(h, id,
                     FinSwitch([h EXCEPT ![id] = [h[id] EXCEPT !.type = FinType(h[id])]], id))

(* finalize() from the digest w waited for to its next wait:                *)
(* this.hashes[dest_i] = digest, hash_i++, level_i++.  The array written is *)
(* the one that was this.hashes when the wait began (w.own tells whether it *)
(* still is): the digest of a call whose array another finalize call on the *)
(* cell has replaced since is stored in an array no cell has.               *)
FinResume(h, id, w) ==
    FinLoop(IF w.own
            THEN [h EXCEPT ![id].hashes = StoreAt(@, w.hash_i - w.offset, w.digest, Undefined)]
            ELSE h,
            id, w.level_i + 1, w.hash_i + 1, w.offset, w.level)

(* await c.finalize() with nothing else running: every digest arrives      *)
(* before anything else happens                                             *)
RECURSIVE FinSettle(_, _, _)
FinSettle(h, id, w) ==
    IF w.pc = "digest"
    THEN FinSettle(h, id, FinResume([h EXCEPT ![id] = w.cell], id, WaitAt(w)))
    ELSE Res(w.cell, w.err)

finalize(h, id) == FinSettle(h, id, FinBegin(h, id))

(* the history fields after a run: fin and err tell how the last finalize   *)
(* of the cell that ended did end                                           *)
Landed(w) ==
    IF w.pc = "digest" THEN w.cell
    ELSE [w.cell EXCEPT !.fin = IF w.err = "" THEN "ok" ELSE "failed", !.err = w.err]

-----------------------------------------------------------------------------
(* The state: heap is the cells constructed so far; last is the last read   *)
(* of a hash or depth and what it returned; boc is a toBoc call in          *)
(* progress or finished; dec is the fromBoc call made, under way (waiting   *)
(* for a digest or about to run on after an await) or over with its         *)
(* outcome; calls are the finalize calls that wait for a digest and the     *)
(* finalizeTree calls made, each with the cells it is in.                   *)

NoRead == [op |-> "none", id |-> 0, level |-> 0, bytes |-> <<>>, num |-> 0, threw |-> FALSE]

NoBoc == [phase |-> "idle"]

NoDec == [status |-> "none"]

Init ==
    /\ heap = <<>>
    /\ last = NoRead
    /\ boc = NoBoc
    /\ dec = NoDec
    /\ calls = <<>>

(* payloads the callers write *)
U16(d) == <<(d \div 256) % 256, d % 256>>

Filler(j) == [i \in 1..hash_bytes |-> 16 + j]

OrdinaryPayloads ==
    { EmptyBits, [data |-> <<168>>, cursor |-> 5] }

(* a PrunnedBranch payload: tag, level mask, one hash and one depth per     *)
(* set bit of the mask                                                      *)
PrunnedPayload(mask, d) ==
    LET n == getHashesCountFromMask(mask % 8) - 1
    IN BitsOf(<<PrunnedBranchCell, mask>>
              \o ConcatAll([j \in 1..n |-> Filler(j)])
              \o ConcatAll([j \in 1..n |-> U16(d)]))

LibraryPayload == BitsOf(<<LibraryCell>> \o Filler(0))

HashOr(c, filler) == IF IsBytes(getHash(c, 0)) THEN getHash(c, 0) ELSE filler

DepthOr(c) == IF getDepth(c, 0) >= 0 THEN getDepth(c, 0) ELSE 0

Corrupt(hash) == [hash EXCEPT ![hash_bytes] = (@ + 1) % 256]

MerkleProofPayload(hash, d) == BitsOf(<<MerkleProofCell>> \o hash \o U16(d))

MerkleUpdatePayload(hash0, hash1, d0, d1) ==
    BitsOf(<<MerkleUpdateCell>> \o hash0 \o hash1 \o U16(d0) \o U16(d1))

(* reference lists over the cells of the heap, up to MaxRefs long *)
RefSeqs(n) == UNION { [1..k -> 1..n] : k \in 0..MaxRefs }

(* the callers finalize bottom-up: at most the newest cell is left          *)
(* unfinalized when the next one is constructed, and fewer than MaxWaiting  *)
(* finalize calls wait                                                      *)
Construct(bits, refs, isExotic) ==
    /\ \A id \in 1..(Len(heap) - 1) : heap[id].fin # "new"
    /\ Len(calls) < MaxWaiting
    /\ heap' = Append(heap, NewCellRec(bits, refs, isExotic))
    /\ last' = NoRead
    /\ UNCHANGED <<calls, boc, dec>>

(* new Cell(), its payload written and its references pushed *)
NewOrdinary ==
    /\ Len(heap) < MaxHeap
    /\ \E refs \in RefSeqs(Len(heap)) :
          Construct([data |-> <<168>>, cursor |-> 5], refs, FALSE)

PrunnedMasks == {1, 2}
PrunnedDepths == {MaxDepth - 1, MaxDepth}

NewPrunned ==
    /\ Len(heap) < MaxHeap
    /\ \E mask \in PrunnedMasks, d \in PrunnedDepths :
          Construct(PrunnedPayload(mask, d), <<>>, TRUE)

NewLibrary ==
    /\ Len(heap) < MaxHeap
    /\ Construct(LibraryPayload, <<>>, TRUE)

NewMerkleProof ==
    /\ Len(heap) < MaxHeap
    /\ \E r \in 1..Len(heap), badHash \in BOOLEAN, badDepth \in BOOLEAN :
          LET hash == HashOr(heap[r], Filler(0))
              d == DepthOr(heap[r])
          IN Construct(MerkleProofPayload(IF badHash THEN Corrupt(hash) ELSE hash,
                                          IF badDepth THEN d + 1 ELSE d),
                       <<r>>, TRUE)

NewMerkleUpdate ==
    /\ Len(heap) < MaxHeap
    /\ \E r0 \in 1..Len(heap), r1 \in 1..Len(heap), bad \in 0..4 :
          r0 <= r1 /\
          LET hash0 == HashOr(heap[r0], Filler(0))
              hash1 == HashOr(heap[r1], Filler(0))
              d0 == DepthOr(heap[r0])
              d1 == DepthOr(heap[r1])
          IN Construct(MerkleUpdatePayload(IF bad = 1 THEN Corrupt(hash0) ELSE hash0,
                                           IF bad = 2 THEN Corrupt(hash1) ELSE hash1,
                                           IF bad = 3 THEN d0 + 1 ELSE d0,
                                           IF bad = 4 THEN d1 + 1 ELSE d1),
                       <<r0, r1>>, TRUE)

(* The finalize calls that wait for a digest are in calls: the cell and the *)
(* loop's variables of each.                                                *)
Remove(seq, t) == SubSeq(seq, 1, t - 1) \o SubSeq(seq, t + 1, Len(seq))

(* toBoc has no await: between its call and its end (the steps of its       *)
(* fix-up loop) no other call is made and no digest is delivered            *)
ToBocRuns == boc.phase = "fixup"

(* cell.finalize() is called and has run to its first wait (w) *)
FinalizeRan(id, w) ==
    /\ ~ToBocRuns
    /\ heap' = [heap EXCEPT ![id] = Landed(w)]
    /\ calls' = IF w.pc = "digest"
                THEN Append(Orphaned(calls, id, w.reset),
                            [kind |-> "finalize", id |-> id, at |-> WaitAt(w)])
                ELSE Orphaned(calls, id, w.reset)
    /\ last' = NoRead
    /\ UNCHANGED <<boc, dec>>

FinalizeOn(id) == FinalizeRan(id, FinBegin(heap, id))

(* cell.finalize() on any cell, finalized before or not, while at most      *)
(* MaxWaiting calls wait; a call beside a waiting one, and a call on a cell *)
(* that was finalized before, are made while the heap has at most           *)
(* MaxReadCells cells                                                       *)
FinalizeCall ==
    /\ Len(calls) < MaxWaiting
    /\ \E id \in DOMAIN heap :
          /\ (calls # <<>> \/ heap[id].fin # "new") => Len(heap) <= MaxReadCells
          /\ FinalizeOn(id)

(* await cell.finalize() by a caller that finalizes each cell once and      *)
(* waits for it                                                             *)
FinalizeNew ==
    /\ calls = <<>>
    /\ \E id \in DOMAIN heap : heap[id].fin = "new" /\ FinalizeOn(id)

(* the digest a call waits for arrives and the call runs on (to w) *)
DigestRan(t, id, w) ==
    /\ ~ToBocRuns
    /\ heap' = [heap EXCEPT ![id] = Landed(w)]
    /\ calls' = IF w.pc = "digest" THEN [calls EXCEPT ![t].at = WaitAt(w)]
                ELSE Remove(calls, t)
    /\ last' = NoRead
    /\ UNCHANGED <<boc, dec>>

FinalizeDigest ==
    \E t \in DOMAIN calls :
       /\ calls[t].kind = "finalize"
       /\ DigestRan(t, calls[t].id, FinResume(heap, calls[t].id, calls[t].at))

(* BitString.writeBitString(other): the bits of other up to its cursor are  *)
(* written one by one at the cursor of b                                    *)
BitAt(b, i) == Bit(b.data[(i \div 8) + 1], 7 - (i % 8))

writeBitString(b, other) ==
    LET n == b.cursor + other.cursor
        bit(i) == IF i < b.cursor THEN BitAt(b, i)
                  ELSE IF i < n THEN BitAt(other, i - b.cursor)
                  ELSE 0
    IN [data |-> [j \in 1..((n + 7) \div 8) |->
                     SumRange([t \in 0..7 |-> bit(8 * (j - 1) + t) * Pow2(7 - t)], 0, 7)],
        cursor |-> n]

(* this.writeCell(anotherCell): the other cell's bits and references are    *)
(* appended to this cell's; nothing else of the cell changes                *)
writeCell(c, anotherCell) ==
    [c EXCEPT !.bits = writeBitString(c.bits, anotherCell.bits),
              !.refs = c.refs \o anotherCell.refs]

WriteCell ==
    /\ Len(heap) <= MaxWriteCells
    /\ \E id \in DOMAIN heap, other \in DOMAIN heap :
       /\ heap[id].bits.cursor + heap[other].bits.cursor <= MaxWrittenBits
       /\ Len(heap[id].refs) + Len(heap[other].refs) <= MaxWrittenRefs
       /\ heap' = [heap EXCEPT ![id] = writeCell(heap[id], heap[other])]
       /\ last' = NoRead
       /\ UNCHANGED <<calls, boc, dec>>

(* cell.getLevelMask(), which hash() and getDataWithDescriptors() call: the *)
(* mask is computed from the references' masks, which are computed the same *)
(* way first, and each is stored in its cell.  A reference cycle ends the   *)
(* recursion with a RangeError when the call stack is used up, here after   *)
(* StackCalls nested calls; the masks stored before an error stay.          *)
MaskRes(h, mask, err) == [h |-> h, mask |-> mask, err |-> err]

RECURSIVE StoreLevelMask(_, _, _)
RECURSIVE OrStoredMasks(_, _, _, _, _, _)
OrStoredMasks(h, refs, k, n, mask, fuel) ==
    IF k > n THEN MaskRes(h, mask, "")
    ELSE IF k > Len(refs) \/ ~IsObj(h, refs[k]) THEN MaskRes(h, mask, "TypeError")
    ELSE LET r == StoreLevelMask(h, refs[k], fuel - 1)
         IN IF r.err # "" THEN r
            ELSE OrStoredMasks(r.h, refs, k + 1, n, BitOr8(mask, r.mask % 256), fuel)

StoreLevelMask(h, id, fuel) ==
    LET c == h[id] IN
    IF fuel = 0 THEN MaskRes(h, 0, "RangeError")
    ELSE IF c.isExotic /\ c.type # LibraryCell
    THEN CASE c.type = PrunnedBranchCell -> MaskRes(h, c.levelMask, "")
           [] c.type \in {MerkleProofCell, MerkleUpdateCell} ->
                 LET r == OrStoredMasks(h, c.refs, 1,
                                        IF c.type = MerkleProofCell THEN 1 ELSE 2, 0, fuel)
                 IN IF r.err # "" THEN r
                    ELSE MaskRes([r.h EXCEPT ![id].levelMask = r.mask \div 2],
                                 r.mask \div 2, "")
           [] OTHER -> MaskRes(h, 0, "Unknown special cell type")
    ELSE LET r == OrStoredMasks(h, c.refs, 1, Len(c.refs), 0, fuel)
         IN IF r.err # "" THEN r
            ELSE MaskRes([r.h EXCEPT ![id].levelMask = r.mask], r.mask, "")

GetLevelMaskRan(id, r) ==
    /\ heap' = r.h
    /\ last' = [op |-> "getLevelMask", id |-> id, level |-> 0, bytes |-> <<>>,
                num |-> IF r.err = "" THEN r.mask ELSE UndefD, threw |-> r.err # ""]
    /\ UNCHANGED <<calls, boc, dec>>

GetLevelMask ==
    /\ Len(heap) <= MaxReadCells
    /\ \E id \in DOMAIN heap : GetLevelMaskRan(id, StoreLevelMask(heap, id, StackCalls))

ReadLevels == 0..2

(* cell.getHash(level) of the newest cell *)
ReadHash ==
    /\ Len(heap) > 0
    /\ Len(heap) <= MaxReadCells
    /\ \E level \in ReadLevels :
          last' = [op |-> "getHash", id |-> Len(heap), level |-> level,
                   bytes |-> getHash(heap[Len(heap)], level), num |-> 0, threw |-> FALSE]
    /\ UNCHANGED <<calls, heap, boc, dec>>

(* cell.getDepth(level) of the newest cell *)
ReadDepth ==
    /\ Len(heap) > 0
    /\ Len(heap) <= MaxReadCells
    /\ \E level \in ReadLevels :
          last' = [op |-> "getDepth", id |-> Len(heap), level |-> level,
                   bytes |-> <<>>, num |-> getDepth(heap[Len(heap)], level), threw |-> FALSE]
    /\ UNCHANGED <<calls, heap, boc, dec>>

NextCell ==
    \/ NewOrdinary
    \/ NewPrunned
    \/ NewLibrary
    \/ NewMerkleProof
    \/ NewMerkleUpdate
    \/ FinalizeCall
    \/ FinalizeDigest
    \/ WriteCell
    \/ GetLevelMask
    \/ ReadHash
    \/ ReadDepth

SpecCell == Init /\ [][NextCell]_vars

(* The life of a cell as its callers lead it: written while it is built,    *)
(* finalized by one awaited call, and not written after.                    *)
NextBuild ==
    \/ NewOrdinary
    \/ NewPrunned
    \/ NewLibrary
    \/ NewMerkleProof
    \/ NewMerkleUpdate
    \/ FinalizeNew
    \/ FinalizeDigest
    \/ ReadHash
    \/ ReadDepth

SpecBuild == Init /\ [][NextBuild]_vars

-----------------------------------------------------------------------------
(* A chain of nested single-child Ordinary cells, built bottom-up: the leaf *)
(* is an Ordinary cell or a PrunnedBranch with an embedded depth, each next *)
(* cell references the one before it, and each is finalized before the next *)
(* is constructed.                                                          *)

ChainPayload == [data |-> <<168>>, cursor |-> 5]

NewChainLeaf ==
    /\ Len(heap) = 0
    /\ \/ Construct(ChainPayload, <<>>, FALSE)
       \/ \E d \in PrunnedDepths : Construct(PrunnedPayload(1, d), <<>>, TRUE)

NewChainCell ==
    /\ Len(heap) > 0
    /\ Len(heap) < MaxChain
    /\ heap[Len(heap)].fin = "ok"
    /\ Construct(ChainPayload, <<Len(heap)>>, FALSE)

NextChain ==
    \/ NewChainLeaf
    \/ NewChainCell
    \/ FinalizeNew
    \/ FinalizeDigest

SpecChain == Init /\ [][NextChain]_vars

-----------------------------------------------------------------------------
(* The digests of the model do not collide: two finalized cells of the heap *)
(* with the same level-0 hash have the same descriptors, payload and        *)
(* children's hashes and depths.                                            *)
ChildSummary(h, c) ==
    [k \in 1..Len(c.refs) |-> <<getHash(h[c.refs[k]], 0), getDepth(h[c.refs[k]], 0)>>]

DigestsDistinct ==
    \A i \in DOMAIN heap, j \in DOMAIN heap :
        (heap[i].fin = "ok" /\ heap[j].fin = "ok" /\ heap[i].type # PrunnedBranchCell
           /\ heap[j].type # PrunnedBranchCell /\ heap[i].hashes[1] = heap[j].hashes[1])
        => /\ heap[i].bits = heap[j].bits
           /\ heap[i].isExotic = heap[j].isExotic
           /\ ChildSummary(heap, heap[i]) = ChildSummary(heap, heap[j])

-----------------------------------------------------------------------------
(* Cell.toBoc *)

(* getLevelMask(): the level mask as toBoc's descriptors read it; it is     *)
(* also stored back into the cell (see ToBocFinish).  UndefD stands for the *)
(* "Unknown special cell type" error.                                       *)
RECURSIVE getLevelMask(_, _)
RECURSIVE OrLevelMasks(_, _, _, _)
OrLevelMasks(h, refs, k, mask) ==
    IF k > Len(refs) THEN mask
    ELSE LET m == getLevelMask(h, refs[k])
         IN IF m = UndefD THEN UndefD
            ELSE OrLevelMasks(h, refs, k + 1, BitOr8(mask, m))

getLevelMask(h, id) ==
    LET c == h[id] IN
    IF c.isExotic /\ c.type # LibraryCell
    THEN CASE c.type = PrunnedBranchCell -> c.levelMask
           [] c.type = MerkleProofCell ->
                 LET m == getLevelMask(h, c.refs[1])
                 IN IF m = UndefD THEN UndefD ELSE m \div 2
           [] c.type = MerkleUpdateCell ->
                 LET m == OrLevelMasks(h, c.refs, 1, 0)
                 IN IF m = UndefD THEN UndefD ELSE m \div 2
           [] OTHER -> UndefD
    ELSE OrLevelMasks(h, c.refs, 1, 0)

(* cellHash in indexHashmap, and the entry of a hash: the index map is kept *)
(* as the sequence of its entries in insertion order, the order in which    *)
(* for-in visits them                                                       *)
HasKey_Never(map, hash) == FALSE

HasKey(map, hash) == \E i \in DOMAIN map : map[i].hash = hash

KeyPos(map, hash) == CHOOSE i \in DOMAIN map : map[i].hash = hash

(* treeWalk(cell, topologicalOrderArray, indexHashmap) *)
RECURSIVE treeWalk(_, _, _, _)
RECURSIVE treeWalkRefs(_, _, _, _, _, _)
treeWalkRefs(h, refs, k, order, map, childHashList) ==
    IF k > Len(refs)
    THEN [order |-> order, map |-> map, childHashList |-> childHashList]
    ELSE LET res == treeWalk(h, refs[k], order, map)
         IN treeWalkRefs(h, refs, k + 1, res.order, res.map,
                         Append(childHashList, res.hash))

treeWalk(h, id, order, map) ==
    LET cellHash == getHash(h[id], 0) IN
    IF HasKey(map, cellHash)
    THEN [hash |-> cellHash, order |-> order, map |-> map]
    ELSE LET cellIndex == Len(order)
             r == treeWalkRefs(h, h[id].refs, 1,
                               Append(order, [hash |-> cellHash, cell |-> id]),
                               map, <<>>)
         IN [hash |-> cellHash, order |-> r.order,
             map |-> Append(r.map, [hash |-> cellHash, index |-> cellIndex,
                                    cell |-> id, childHashList |-> r.childHashList])]

(* the fix-up loop's test and its two assignments *)
NeedsBump(childIndex, cellIndex) == childIndex <= cellIndex

BumpedMax_Same(maxIndex) == maxIndex

BumpedMax(maxIndex) == maxIndex + 1

(* the inner loop of the fix-up over the children of one entry: st is the   *)
(* index map, maxIndex and changed                                          *)
RECURSIVE FixupChildren(_, _, _, _)
FixupChildren(st, cellIndex, childHashList, k) ==
    IF k > Len(childHashList) THEN st
    ELSE LET p == KeyPos(st.map, childHashList[k])
         IN IF NeedsBump(st.map[p].index, cellIndex)
            THEN FixupChildren([map |-> [st.map EXCEPT ![p].index = st.maxIndex],
                                maxIndex |-> BumpedMax(st.maxIndex),
                                changed |-> TRUE],
                               cellIndex, childHashList, k + 1)
            ELSE FixupChildren(st, cellIndex, childHashList, k + 1)

(* topologicalOrder.sort by assigned index (the sort is stable) *)
IndexOf(map, entry) == map[KeyPos(map, entry.hash)].index

SortOrder_Unsorted(order, map) == order

SortOrder_Descending(order, map) ==
    LET idx == Tuple([p \in DOMAIN order |-> IndexOf(map, order[p])])
        rank == Tuple([p \in DOMAIN order |->
                    Cardinality({q \in DOMAIN order :
                                    idx[q] > idx[p] \/ (idx[q] = idx[p] /\ q < p)})])
    IN [i \in DOMAIN order |-> order[CHOOSE p \in DOMAIN order : rank[p] = i - 1]]

SortOrder(order, map) ==
    LET idx == Tuple([p \in DOMAIN order |-> IndexOf(map, order[p])])
        rank == Tuple([p \in DOMAIN order |->
                    Cardinality({q \in DOMAIN order :
                                    idx[q] < idx[p] \/ (idx[q] = idx[p] /\ q < p)})])
    IN [i \in DOMAIN order |-> order[CHOOSE p \in DOMAIN order : rank[p] = i - 1]]

(* cellsIndex[hash] after the relabelling loop: the position in the sorted  *)
(* order, from 0                                                            *)
FinalIndex(sorted, hash) ==
    (CHOOSE i \in DOMAIN sorted : sorted[i].hash = hash) - 1
(* refIndexInt.toString(16), padded to an even number of digits, through    *)
(* hexToBytes: the big-endian bytes of the index, as few as hold it         *)
RefIndexBytes_Pair(n) == <<n \div 256, n % 256>>

RECURSIVE RefIndexBytes(_)
RefIndexBytes(n) ==
    IF n < 256 THEN <<n>> ELSE RefIndexBytes(n \div 256) \o <<n % 256>>

getDataWithDescriptors(h, id) ==
    LET d1 == <<getRefsDescriptor(h[id], getLevelMask(h, id))>>
        d2 == <<getBitsDescriptor(h[id])>>
        tuBits == getTopUppedArray(h[id].bits)
    IN concatBytes(concatBytes(d1, d2), tuBits)

(* serializeForBoc(cellsIndex, refSize): refSize is not used *)
serializeForBoc(h, id, sorted) ==
    LET refs == h[id].refs
    IN getDataWithDescriptors(h, id)
       \o ConcatAll([k \in 1..Len(refs) |->
                        RefIndexBytes(FinalIndex(sorted, getHash(h[refs[k]], 0)))])

(* number.toString(2).length *)
BitLen(n) == CHOOSE k \in 1..31 : n < Pow2(k) /\ (k = 1 \/ n >= Pow2(k - 1))

(* BitString.writeUint(number, 8 * nbytes) at a byte boundary: the number   *)
(* big-endian; a number that does not fit the width is refused              *)
UIntBE(v, nbytes) == [i \in 1..nbytes |-> (v \div Pow2(8 * (nbytes - i))) % 256]

writeUint(v, nbytes) ==
    IF v < Pow2(8 * nbytes)
    THEN [ok |-> TRUE, bytes |-> UIntBE(v, nbytes)]
    ELSE [ok |-> FALSE, bytes |-> <<>>]

(* toBoc from the sort on: the container, or the error of the write that    *)
(* failed.  has_cache_bits and flags keep their defaults (false, 0); the    *)
(* containers of the model stay far below the capacity of the buffer.       *)
s_bytes == 1

toBocBytes(h, sorted, has_idx, hash_crc32) ==
    LET cells_num == Len(sorted)
        recs == Tuple([i \in 1..cells_num |-> serializeForBoc(h, sorted[i].cell, sorted)])
        sizes == Tuple([i \in 1..cells_num |-> Len(recs[i])])
        sizeIndex == Tuple([i \in 1..cells_num |-> SumRange(sizes, 1, i)])
        full_size == SumRange(sizes, 1, cells_num)
        offset_bits == BitLen(full_size)
        offset_bytes == Max2((offset_bits + 7) \div 8, 1)
        flags_byte == (IF has_idx THEN 128 ELSE 0) + (IF hash_crc32 THEN 64 ELSE 0) + s_bytes
        count == writeUint(cells_num, s_bytes)
        ser_arr == reachBocMagicPrefix \o <<flags_byte, offset_bytes>>
                   \o count.bytes \o UIntBE(1, s_bytes) \o UIntBE(0, s_bytes)
                   \o UIntBE(full_size, offset_bytes) \o UIntBE(0, s_bytes)
                   \o (IF has_idx
                       THEN ConcatAll([i \in 1..cells_num |-> UIntBE(sizeIndex[i], offset_bytes)])
                       ELSE <<>>)
                   \o ConcatAll(recs)
    IN IF \E i \in 1..cells_num : getLevelMask(h, sorted[i].cell) = UndefD
       THEN [ok |-> FALSE, err |-> "Unknown special cell type", bytes |-> <<>>]
       ELSE IF ~count.ok
       THEN [ok |-> FALSE, err |-> "bitLength is too small for number", bytes |-> <<>>]
       ELSE [ok |-> TRUE, err |-> "",
             bytes |-> IF hash_crc32 THEN concatBytes(ser_arr, crc32c(ser_arr)) ELSE ser_arr]

(* the cells the walk reaches from a root *)
RECURSIVE ReachFrom(_, _)
ReachFrom(h, id) ==
    {id} \cup UNION { ReachFrom(h, h[id].refs[k]) : k \in DOMAIN h[id].refs }

(* toBoc(has_idx, hash_crc32) on the newest cell, up to the fix-up loop:    *)
(* changed tells that a scan is due, passes counts the scans (a counter     *)
(* that starts over after MaxPasses)                                        *)
Started(h, root, has_idx, hash_crc32, w) ==
    [phase |-> "fixup", root |-> root, has_idx |-> has_idx,
     hash_crc32 |-> hash_crc32, order |-> w.order, map |-> w.map,
     maxIndex |-> Len(w.order), changed |-> TRUE,
     passes |-> 0, out |-> <<>>, err |-> ""]

ToBocOn(h, root, has_idx, hash_crc32) ==
    Started(h, root, has_idx, hash_crc32, treeWalk(h, root, <<>>, <<>>))

ToBocStart ==
    /\ boc.phase = "idle"
    /\ Len(heap) > 0
    /\ \A id \in DOMAIN heap : heap[id].fin = "ok"
    /\ \E has_idx \in BOOLEAN, hash_crc32 \in BOOLEAN :
          boc' = ToBocOn(heap, Len(heap), has_idx, hash_crc32)
    /\ last' = NoRead
    /\ UNCHANGED <<calls, heap, dec>>

(* toBoc() on the newest finalized cell while the cell constructed after it *)
(* is not finalized yet (its finalize is not called or waits for a digest)  *)
ToBocBeside ==
    /\ boc.phase = "idle"
    /\ Len(heap) > 1
    /\ heap[Len(heap)].fin = "new"
    /\ \A id \in 1..(Len(heap) - 1) : heap[id].fin = "ok"
    /\ boc' = ToBocOn(heap, Len(heap) - 1, FALSE, FALSE)
    /\ last' = NoRead
    /\ UNCHANGED <<calls, heap, dec>>

(* one scan of the fix-up loop, the for-in loop over the entries lo..hi of   *)
(* the index map in order (the range is halved; the entries are visited     *)
(* from the first to the last, the left half before the right half is       *)
(* entered)                                                                 *)
RECURSIVE FixupRange(_, _, _)
FixupRange(st, lo, hi) ==
    IF lo > hi THEN st
    ELSE IF lo = hi
    THEN FixupChildren(st, st.map[lo].index, st.map[lo].childHashList, 1)
    ELSE LET mid == (lo + hi) \div 2
             left == FixupRange(st, lo, mid)
         IN IF left.maxIndex >= st.maxIndex THEN FixupRange(left, mid + 1, hi) ELSE left

(* one iteration of while (true): a full scan; changed tells whether        *)
(* another scan follows                                                     *)
FixupScan ==
    /\ boc.phase = "fixup"
    /\ boc.changed
    /\ LET st == FixupRange([map |-> boc.map, maxIndex |-> boc.maxIndex,
                             changed |-> FALSE], 1, Len(boc.map))
       IN boc' = [boc EXCEPT !.map = st.map, !.maxIndex = st.maxIndex,
                             !.changed = st.changed,
                             !.passes = (boc.passes % MaxPasses) + 1]
    /\ UNCHANGED <<calls, heap, last, dec>>

(* a scan without a change ends the loop: sort, relabel, serialize *)
ToBocFinish ==
    /\ boc.phase = "fixup"
    /\ ~boc.changed
    /\ LET sorted == SortOrder(boc.order, boc.map)
           r == toBocBytes(heap, sorted, boc.has_idx, boc.hash_crc32)
           seen == ReachFrom(heap, boc.root)
           relabelled == [i \in DOMAIN boc.map |->
                             [hash |-> boc.map[i].hash,
                              index |-> FinalIndex(sorted, boc.map[i].hash),
                              cell |-> boc.map[i].cell,
                              childHashList |-> boc.map[i].childHashList]]
       IN /\ boc' = [boc EXCEPT !.phase = IF r.ok THEN "done" ELSE "failed",
                                !.order = sorted, !.map = relabelled,
                                !.out = r.bytes, !.err = r.err]
          /\ heap' = [id \in DOMAIN heap |->
                         IF id \in seen /\ getLevelMask(heap, id) # UndefD
                         THEN [heap[id] EXCEPT !.levelMask = getLevelMask(heap, id)]
                         ELSE heap[id]]
    /\ UNCHANGED <<calls, last, dec>>

-----------------------------------------------------------------------------
(* Cell.fromBoc: parseBocHeader, deserializeCellData, deserializeBoc *)

(* JavaScript's truthiness, < and arithmetic on numbers that may be         *)
(* undefined or NaN                                                         *)
IsNum(v) == v # UndefD /\ v # NaN

Truthy(v) == IsNum(v) /\ v # 0

Lt(a, b) == IsNum(a) /\ IsNum(b) /\ a < b

Mul(a, b) == IF IsNum(a) /\ IsNum(b) THEN a * b ELSE NaN

Add(a, b) == IF IsNum(a) /\ IsNum(b) THEN a + b ELSE NaN

(* a[0] of a Uint8Array *)
First(a) == IF Len(a) > 0 THEN a[1] ELSE UndefD

HeaderErr(err) == [ok |-> FALSE, err |-> err]

(* parseBocHeader from the counters on: the flags byte is already read (or, *)
(* for a foreign prefix, skipped with every field of it left undefined)     *)
parseCounters(inputData, rest0, has_idx, hash_crc32, has_cache_bits, flags, size_bytes) ==
    IF Lt(Len(rest0), Add(1, Mul(5, size_bytes)))
    THEN HeaderErr("Not enough bytes for encoding cells counters")
    ELSE
    LET offset_bytes == First(rest0)
        rest1 == SliceFrom(rest0, 1)
        cells_num == readNBytesUIntFromArray(size_bytes, rest1)
        rest2 == SliceFrom(rest1, size_bytes)
        roots_num == readNBytesUIntFromArray(size_bytes, rest2)
        rest3 == SliceFrom(rest2, size_bytes)
        absent_num == readNBytesUIntFromArray(size_bytes, rest3)
        rest4 == SliceFrom(rest3, size_bytes)
        tot_cells_size == readNBytesUIntFromArray(offset_bytes, rest4)
        rest5 == SliceFrom(rest4, offset_bytes)
    IN
    IF Lt(Len(rest5), Mul(roots_num, size_bytes))
    THEN HeaderErr("Not enough bytes for encoding root cells hashes")
    ELSE
    LET nroots == IF IsNum(roots_num) THEN roots_num ELSE 0
        root_list == [c \in 1..nroots |->
                         readNBytesUIntFromArray(size_bytes,
                                                 SliceFrom(rest5, (c - 1) * size_bytes))]
        rest6 == IF nroots = 0 THEN rest5 ELSE SliceFrom(rest5, nroots * size_bytes)
        nindex == IF Truthy(has_idx) /\ IsNum(cells_num) THEN cells_num ELSE 0
    IN
    IF Truthy(has_idx) /\ Lt(Len(rest6), Mul(offset_bytes, cells_num))
    THEN HeaderErr("Not enough bytes for index encoding")
    ELSE
    LET index == [c \in 1..nindex |->
                     readNBytesUIntFromArray(offset_bytes,
                                             SliceFrom(rest6, (c - 1) * offset_bytes))]
        rest7 == IF nindex = 0 THEN rest6 ELSE SliceFrom(rest6, nindex * offset_bytes)
    IN
    IF Lt(Len(rest7), tot_cells_size)
    THEN HeaderErr("Not enough bytes for cells data")
    ELSE
    LET cells_data == SliceTo(rest7, tot_cells_size)
        rest8 == SliceFrom(rest7, tot_cells_size)
        length == Len(inputData)
        crc32_1 == crc32c(SliceTo(inputData, length - 4))
        crc32_2 == SliceTo(rest8, 4)
        rest9 == IF Truthy(hash_crc32) THEN SliceFrom(rest8, 4) ELSE rest8
    IN
    IF Truthy(hash_crc32) /\ Len(rest8) < 4
    THEN HeaderErr("Not enough bytes for crc32c hashsum")
    ELSE IF Truthy(hash_crc32) /\ BufferToString(crc32_1) # BufferToString(crc32_2)
    THEN HeaderErr("Crc32c hashsum mismatch")
    ELSE IF Len(rest9) # 0
    THEN HeaderErr("Too much bytes in BoC serialization")
    ELSE [ok |-> TRUE, err |-> "", has_idx |-> has_idx, hash_crc32 |-> hash_crc32,
          has_cache_bits |-> has_cache_bits, flags |-> flags, size_bytes |-> size_bytes,
          off_bytes |-> offset_bytes, cells_num |-> cells_num, roots_num |-> roots_num,
          absent_num |-> absent_num, tot_cells_size |-> tot_cells_size,
          root_list |-> root_list, index |-> index, cells_data |-> cells_data]

parseBocHeader(serializedBoc) ==
    IF Len(serializedBoc) < 4 + 1
    THEN HeaderErr("Not enough bytes for magic prefix")
    ELSE
    LET prefix == SliceTo(serializedBoc, 4)
        rest == SliceFrom(serializedBoc, 4)
        flags_byte == rest[1]
    IN IF compareBytes(prefix, reachBocMagicPrefix)
       THEN parseCounters(serializedBoc, SliceFrom(rest, 1),
                          Bit(flags_byte, 7) * 128, Bit(flags_byte, 6) * 64,
                          Bit(flags_byte, 5) * 32,
                          Bit(flags_byte, 4) * 16 * 2 + Bit(flags_byte, 3) * 8,
                          flags_byte % 8)
       ELSE parseCounters(serializedBoc, SliceFrom(rest, 1),
                          UndefD, UndefD, UndefD, UndefD, UndefD)

CellErr(err) == [ok |-> FALSE, err |-> err]

(* deserializeCellData(cellData, referenceIndexSize): the cell, its         *)
(* references still the indices read (kept here as index + 1, the place of  *)
(* the record in the array of cells), and the bytes left                    *)
deserializeCellData(cellData, referenceIndexSize) ==
    IF Len(cellData) < 2
    THEN CellErr("Not enough bytes to encode cell descriptors")
    ELSE
    LET d1 == cellData[1]
        d2 == cellData[2]
        data0 == SliceFrom(cellData, 2)
        refNum == d1 % 8
        dataByteSize == (d2 \div 2) + (d2 % 2)
        fullfilledBytes == (d2 % 2) = 0
        levelMask == d1 \div 32
        isExotic == Bit(d1, 3) = 1
        hasHashes == Bit(d1, 4) = 1
        hashesSize == IF hasHashes THEN getHashesCountFromMask(levelMask) * hash_bytes ELSE 0
        depthSize == IF hasHashes THEN getHashesCountFromMask(levelMask) * 2 ELSE 0
    IN
    IF refNum > 4 THEN CellErr("Cannot deserialize absent cell")
    ELSE IF Lt(Len(data0), Add(hashesSize + depthSize + dataByteSize,
                               Mul(referenceIndexSize, refNum)))
    THEN CellErr("Not enough bytes to encode cell data")
    ELSE
    LET data1 == SliceFrom(SliceFrom(data0, hashesSize), depthSize)
        loaded == setTopUppedArray(SliceTo(data1, dataByteSize), fullfilledBytes)
        data2 == SliceFrom(data1, dataByteSize)
        refs == [r \in 1..refNum |->
                    Add(readNBytesUIntFromArray(referenceIndexSize,
                                                SliceFrom(data2, Mul(r - 1, referenceIndexSize))),
                        1)]
        residue == SliceFrom(data2, Mul(refNum, referenceIndexSize))
    IN
    IF ~loaded.ok THEN CellErr("Incorrect TopUppedArray")
    ELSE [ok |-> TRUE, err |-> "",
          cell |-> [NewCellRec(loaded.bits, refs, isExotic)
                       EXCEPT !.levelMask = levelMask, !.hasHashes = hasHashes],
          residue |-> residue]

(* the first loop of deserializeBoc *)
RECURSIVE parseCells(_, _, _, _)
RECURSIVE parseNext(_, _, _, _)
parseNext(dd, size_bytes, left, cells_array) ==
    IF ~dd.ok THEN [ok |-> FALSE, err |-> dd.err, cells |-> cells_array]
    ELSE parseCells(dd.residue, size_bytes, left - 1, Append(cells_array, dd.cell))

parseCells(cells_data, size_bytes, left, cells_array) ==
    IF ~(left > 0) THEN [ok |-> TRUE, err |-> "", cells |-> cells_array]
    ELSE parseNext(deserializeCellData(cells_data, size_bytes), size_bytes, left, cells_array)

(* the test on a reference r of the record at position ci *)
BrokenOrder_AtOrBelow(r, ci) == Lt(r, ci) \/ r = ci

BrokenOrder(r, ci) == Lt(r, ci)

(* Cell.fromBoc(serializedBoc) of a byte array: the outcome, with the       *)
(* input, the cells as far as they were made and the reference indices      *)
(* (+ 1) the records held                                                   *)
DecErr(input, err, cells, refs) ==
    [status |-> "error", err |-> err, input |-> input, roots |-> <<>>,
     cells |-> cells, refs |-> refs]

RefsOf(cells) == [i \in DOMAIN cells |-> cells[i].refs]

(* deserializeBoc has returned (err is "") or thrown and the `return await` *)
(* of Cell.fromBoc has not run on yet: the outcome the caller will get      *)
DecReturning(input, err, roots, cells, refs) ==
    [status |-> "returning", err |-> err, input |-> input, roots |-> roots,
     cells |-> cells, refs |-> refs]

(* deserializeBoc and Cell.fromBoc are async functions.  The second loop of *)
(* deserializeBoc, from the record at ci: the references of the record      *)
(* become the cells at their indices (a cell that is not there is           *)
(* undefined) and c.finalize() is called, which runs to its first wait or   *)
(* to its end (w is how far it ran); then `await c.finalize()` gives way.   *)
(* While the call is under way, dec holds its local variables: the cells,   *)
(* the position ci of the loop and the roots it will return, and where it   *)
(* stands: "decoding" while finalize of the record at ci waits for a digest *)
(* (at is the wait), "finalized" when that finalize has ended (err is what  *)
(* it threw) and the await of deserializeBoc has not run on yet.  The       *)
(* history field fin of a decoded cell is set when the await runs on.       *)
resolveNext(input, root_list, refs, cells_array, ci, w) ==
    [status |-> IF w.pc = "digest" THEN "decoding" ELSE "finalized",
     err |-> w.err, input |-> input, roots |-> <<>>, root_list |-> root_list,
     cells |-> [cells_array EXCEPT ![ci] = w.cell],
     refs |-> refs, ci |-> ci, at |-> WaitAt(w)]

resolveCells(input, root_list, refs, cells_array, ci) ==
    IF ci < 1
    THEN DecReturning(input, "", root_list, cells_array, refs)
    ELSE IF \E ri \in DOMAIN cells_array[ci].refs :
               BrokenOrder(cells_array[ci].refs[ri], ci)
    THEN DecReturning(input, "Topological order is broken", <<>>, cells_array, refs)
    ELSE resolveNext(input, root_list, refs, cells_array, ci, FinBegin(cells_array, ci))

(* the digest the call waits for arrives: finalize of the record at ci runs *)
(* on, to its next wait or to its end                                       *)
resolveResume(d) ==
    resolveNext(d.input, d.root_list, d.refs, d.cells, d.ci,
                FinResume(d.cells, d.ci, d.at))

(* `await c.finalize()` runs on after finalize of the record at ci has      *)
(* ended: it throws what finalize threw, or the loop goes on with the       *)
(* record before                                                            *)
resolveAwaited(d) ==
    LET cells == [d.cells EXCEPT ![d.ci] = Landed(FinStop(@, d.err))]
    IN IF d.err # "" THEN DecReturning(d.input, d.err, <<>>, cells, d.refs)
       ELSE resolveCells(d.input, d.root_list, d.refs, cells, d.ci - 1)

(* `return await deserializeBoc(serializedBoc)` of Cell.fromBoc runs on:    *)
(* the call returns the roots or throws                                     *)
fromBocReturn(d) == [d EXCEPT !.status = IF d.err = "" THEN "ok" ELSE "error"]

decodeCells(input, header, parsed) ==
    IF ~parsed.ok THEN DecReturning(input, parsed.err, <<>>, <<>>, <<>>)
    ELSE resolveCells(input,
                      [k \in DOMAIN header.root_list |-> Add(header.root_list[k], 1)],
                      RefsOf(parsed.cells), parsed.cells, Len(parsed.cells))

decodeHeader(input, header) ==
    IF ~header.ok THEN DecReturning(input, header.err, <<>>, <<>>, <<>>)
    ELSE decodeCells(input, header,
                     parseCells(header.cells_data, header.size_bytes,
                                IF IsNum(header.cells_num) THEN header.cells_num ELSE 0,
                                <<>>))

(* deserializeBoc(serializedBoc) from the call to where it first gives way *)
deserializeBocCall(serializedBoc) ==
    decodeHeader(serializedBoc, parseBocHeader(serializedBoc))

(* one run of the call, from where it stands to where it next gives way *)
decodeStep(d) ==
    CASE d.status = "decoding" -> resolveResume(d)
      [] d.status = "finalized" -> resolveAwaited(d)
      [] d.status = "returning" -> fromBocReturn(d)

(* await Cell.fromBoc(serializedBoc) with nothing else running: what the    *)
(* call returns or throws                                                   *)
RECURSIVE decodeSettle(_)
decodeSettle(d) ==
    IF d.status \in {"ok", "error"} THEN d ELSE decodeSettle(decodeStep(d))

deserializeBoc(serializedBoc) == decodeSettle(deserializeBocCall(serializedBoc))

(* The byte arrays given to Cell.fromBoc: the container toBoc returned;     *)
(* that container with one byte replaced; that container with one byte of   *)
(* its checksum replaced; bytes that start with another prefix; containers   *)
(* cut short or made longer.                                                *)
PatchBytes == {0, 1, 2}

TrailerBytes == {128, 191, 255}

Patched(out) ==
    { [out EXCEPT ![p] = v] : p \in DOMAIN out, v \in PatchBytes }

(* a byte after the flags and the offset width with its three top bits, the *)
(* place of the level mask in a descriptor byte d1, set to 001              *)
MaskPatched(out) ==
    { [out EXCEPT ![p] = (@ % 32) + 32] : p \in 7..Len(out) }

TrailerPatched(out) ==
    { [out EXCEPT ![p] = v] : p \in (Len(out) - 3)..Len(out), v \in TrailerBytes }

ForeignPrefixes == {leanBocMagicPrefix, leanBocMagicPrefixCRC}

ForeignTails == UNION { [1..n -> 0..2] : n \in 0..MaxTail }

Foreign == { prefix \o tail : prefix \in ForeignPrefixes, tail \in ForeignTails }

(* the container of no cells and no roots with a reference-index width and  *)
(* an offset width, and what is left of a container when bytes are cut off  *)
(* its end or a byte is added                                               *)
Zeros(n) == [i \in 1..n |-> 0]

EmptyContainer(size_bytes, offset_bytes) ==
    reachBocMagicPrefix \o <<size_bytes, offset_bytes>>
    \o Zeros(3 * size_bytes) \o Zeros(offset_bytes)

Resized(out) ==
    { SubSeq(out, 1, k) : k \in 0..Len(out) } \cup { out \o <<0>> }

EmptyContainers ==
    UNION { Resized(EmptyContainer(s, o)) : s \in 1..MaxSizeBytes, o \in 1..MaxOffBytes }

FromBocInputs ==
    IF boc.phase = "done" /\ Len(heap) <= MaxDecodeCells /\ boc.root = Len(heap)
    THEN {boc.out} \cup Patched(boc.out) \cup MaskPatched(boc.out) \cup Resized(boc.out)
         \cup (IF boc.hash_crc32 THEN TrailerPatched(boc.out) ELSE {})
    ELSE IF boc.phase = "done" THEN {boc.out}
    ELSE IF boc.phase = "idle" /\ Len(heap) = 0 THEN Foreign \cup EmptyContainers
    ELSE {}

(* Cell.fromBoc(serializedBoc) is called and runs to where it first gives   *)
(* way                                                                      *)
FromBoc ==
    /\ dec.status = "none"
    /\ \E input \in FromBocInputs : dec' = deserializeBocCall(input)
    /\ UNCHANGED <<calls, heap, last, boc>>

(* the digest the fromBoc call waits for arrives and finalize runs on *)
FromBocDigest ==
    /\ dec.status = "decoding"
    /\ dec' = resolveResume(dec)
    /\ UNCHANGED <<calls, heap, last, boc>>

(* the await of deserializeBoc runs on after the finalize it waited for *)
FromBocAwaited ==
    /\ dec.status = "finalized"
    /\ dec' = resolveAwaited(dec)
    /\ UNCHANGED <<calls, heap, last, boc>>

(* the await of Cell.fromBoc runs on after deserializeBoc *)
FromBocReturned ==
    /\ dec.status = "returning"
    /\ dec' = fromBocReturn(dec)
    /\ UNCHANGED <<calls, heap, last, boc>>

(* the fromBoc call has returned or thrown *)
FromBocEnded == dec.status \in {"ok", "error"}

(* The trees of the container model: leaves are Ordinary cells with a       *)
(* 5-bit payload or PrunnedBranch cells of level 1, the other cells are     *)
(* Ordinary cells without payload over cells built before them.             *)
TreeLeafPayload == [data |-> <<168>>, cursor |-> 5]

NewTreeLeaf ==
    /\ boc.phase = "idle" /\ dec.status = "none"
    /\ Len(heap) < MaxCells
    /\ \/ Construct(TreeLeafPayload, <<>>, FALSE)
       \/ Construct(PrunnedPayload(1, MaxRefs), <<>>, TRUE)

NewTreeCell ==
    /\ boc.phase = "idle" /\ dec.status = "none"
    /\ Len(heap) < MaxCells
    /\ \E refs \in RefSeqs(Len(heap)) : refs # <<>> /\ Construct(EmptyBits, refs, FALSE)

NextBoc ==
    \/ NewTreeLeaf
    \/ NewTreeCell
    \/ FinalizeNew
    \/ FinalizeDigest
    \/ ToBocStart
    \/ ToBocBeside
    \/ FixupScan
    \/ ToBocFinish
    \/ FromBoc
    \/ FromBocDigest
    \/ FromBocAwaited
    \/ FromBocReturned

SpecBoc == Init /\ [][NextBoc]_vars

(* the guards of the two steps of the loop *)
ScanEnabled == boc.phase = "fixup" /\ boc.changed

FinishEnabled == boc.phase = "fixup" /\ ~boc.changed

(* toBoc runs to its end once called: weak fairness of the scan and of the  *)
(* finishing step, WF_vars(A) written out as                                *)
(* []<>~ENABLED <<A>>_vars \/ []<><<A>>_vars, with the guard of the action   *)
(* for ENABLED (both steps change boc whenever their guard holds)           *)
NextToBoc ==
    \/ NewTreeLeaf
    \/ NewTreeCell
    \/ FinalizeNew
    \/ FinalizeDigest
    \/ ToBocStart
    \/ FixupScan
    \/ ToBocFinish

SpecToBocFair ==
    /\ Init /\ [][NextToBoc]_vars
    /\ ([]<>(~ScanEnabled) \/ []<><<FixupScan>>_vars)
    /\ ([]<>(~FinishEnabled) \/ []<><<ToBocFinish>>_vars)

(* A wide tree, built bottom-up: MaxWide cells with different one-byte      *)
(* payloads.  The first WideFit cells, as many as a cell count of s_bytes   *)
(* bytes can tell, are laid out as a 4-ary heap (the cell built as number   *)
(* WideFit is its root, the cell built as number i stands at place          *)
(* WideFit + 1 - i of the heap, whose children stand at places              *)
(* 4k - 2 .. 4k + 1); each cell built after them references the cell built  *)
(* before it, so that every cell built is the root of the tree of the cells *)
(* it reaches.                                                              *)
WideFit == Pow2(8 * s_bytes) - 1

WideRefs(i) ==
    IF i > WideFit THEN <<i - 1>>
    ELSE LET k == WideFit + 1 - i
             n == Cardinality({j \in 1..4 : 4 * k - 3 + j <= WideFit})
         IN [j \in 1..n |-> WideFit + 1 - (4 * k - 3 + j)]

NewWideCell ==
    /\ boc.phase = "idle"
    /\ Len(heap) < MaxWide
    /\ Construct(BitsOf(<<(Len(heap) + 1) % 256>>), WideRefs(Len(heap) + 1), FALSE)

(* toBoc on the root of the finished tree *)
ToBocWide ==
    /\ Len(heap) = MaxWide
    /\ ToBocStart

NextWide ==
    \/ NewWideCell
    \/ FinalizeNew
    \/ FinalizeDigest
    \/ ToBocWide
    \/ FixupScan
    \/ ToBocFinish

SpecWide == Init /\ [][NextWide]_vars

(* toBoc on the cell built last, whenever it is finalized: the trees of the *)
(* cells of the wide tree as it grows, from one cell to MaxWide cells       *)
ToBocEach ==
    /\ Len(heap) > 0
    /\ heap[Len(heap)].fin = "ok"
    /\ ToBocStart

NextWideEach ==
    \/ NewWideCell
    \/ FinalizeNew
    \/ FinalizeDigest
    \/ ToBocEach
    \/ FixupScan
    \/ ToBocFinish

SpecWideEach == Init /\ [][NextWideEach]_vars

(* toBoc on a tree that fromBoc returned: the cells of the program are now  *)
(* the decoded cells (each reference is the position of a decoded cell) and *)
(* toBoc runs on one of the decoded roots.  The trees that are encoded      *)
(* first have at most MaxReencodeCells cells.                                *)
MaxReencodeCells == 2

NewSmallLeaf == Len(heap) < MaxReencodeCells /\ NewTreeLeaf

NewSmallCell == Len(heap) < MaxReencodeCells /\ NewTreeCell

ToBocDecoded ==
    /\ dec.status = "ok"
    /\ \E k \in DOMAIN dec.roots, has_idx \in BOOLEAN, hash_crc32 \in BOOLEAN :
          /\ IsNum(dec.roots[k])
          /\ dec.roots[k] \in DOMAIN dec.cells
          /\ boc' = ToBocOn(dec.cells, dec.roots[k], has_idx, hash_crc32)
    /\ heap' = dec.cells
    /\ dec' = [dec EXCEPT !.status = "encoded"]
    /\ last' = NoRead
    /\ UNCHANGED calls

NextReencode ==
    \/ NewSmallLeaf
    \/ NewSmallCell
    \/ FinalizeNew
    \/ FinalizeDigest
    \/ ToBocStart
    \/ FixupScan
    \/ ToBocFinish
    \/ FromBoc
    \/ FromBocDigest
    \/ FromBocAwaited
    \/ FromBocReturned
    \/ ToBocDecoded

SpecReencode == Init /\ [][NextReencode]_vars

(* The descriptor bytes.  A cell is given a payload of n bits, a number of  *)
(* references to a finalized child, the exotic flag, a type and a level     *)
(* mask; the child is an Ordinary leaf or a PrunnedBranch whose level mask  *)
(* is that mask.  serializeForBoc writes the record of the cell: d1 with    *)
(* the level mask getLevelMask() computes and stores (the call throws where *)
(* getLevelMask throws), d2, the topped-up payload and the index of the     *)
(* child, one byte, for each reference; deserializeCellData reads the       *)
(* record back.                                                             *)
MaxBitLength == 1023

RefsFieldMax == 7

LevelMasks == 0..7

(* every payload length is given to Ordinary cells over a child with the   *)
(* mask and to exotic cells of type PrunnedBranch; the cells of the other   *)
(* types, and those whose level mask is not that of the child, have one of  *)
(* these lengths                                                            *)
FewBitLengths == {0, 1, 2, 8, 16, MaxBitLength}

CellTypes == {OrdinaryCell, PrunnedBranchCell, LibraryCell, MerkleProofCell, MerkleUpdateCell}

(* the child, constructed and finalized *)
DescribedChild(mask) ==
    LET c == IF mask = 0 THEN NewCellRec(TreeLeafPayload, <<>>, FALSE)
             ELSE NewCellRec(PrunnedPayload(mask, 0), <<>>, TRUE)
        res == finalize(<<c>>, 1)
    IN Landed(FinStop(res.cell, res.err))

DescribedChildren == [mask \in LevelMasks |-> DescribedChild(mask)]

DescribedCell(n, r, exotic, type, mask) ==
    [NewCellRec([data |-> Zeros((n + 7) \div 8), cursor |-> n], [k \in 1..r |-> 1], exotic)
        EXCEPT !.type = type, !.levelMask = mask]

InitDescriptors ==
    /\ \E n \in 0..MaxBitLength, r \in 0..RefsFieldMax, exotic \in BOOLEAN,
          type \in CellTypes, mask \in LevelMasks, child \in LevelMasks :
          /\ ~exotic => type = OrdinaryCell
          /\ child \in {0, mask}
          /\ \/ n \in FewBitLengths
             \/ child = mask /\ type = (IF exotic THEN PrunnedBranchCell ELSE OrdinaryCell)
          /\ heap = <<DescribedChildren[child], DescribedCell(n, r, exotic, type, mask)>>
    /\ last = NoRead
    /\ boc = NoBoc
    /\ dec = NoDec
    /\ calls = <<>>

(* cellsIndex of the call: the child has index 0 *)
DescribedIndex == <<[hash |-> getHash(heap[1], 0), cell |-> 1]>>

(* cell.serializeForBoc(cellsIndex) has run: r is what getLevelMask() left  *)
DescriptorsWritten(r) ==
    /\ heap' = r.h
    /\ boc' = IF r.err = ""
              THEN [phase |-> "described", out |-> serializeForBoc(r.h, 2, DescribedIndex),
                    err |-> ""]
              ELSE [phase |-> "failed", out |-> <<>>, err |-> r.err]
    /\ UNCHANGED <<calls, last, dec>>

WriteDescriptors ==
    /\ boc.phase = "idle"
    /\ DescriptorsWritten(StoreLevelMask(heap, 2, StackCalls))

ReadDescriptors ==
    /\ boc.phase = "described"
    /\ dec.status = "none"
    /\ dec' = [status |-> "cell", read |-> deserializeCellData(boc.out, 1)]
    /\ UNCHANGED <<calls, heap, last, boc>>

NextDescriptors ==
    \/ WriteDescriptors
    \/ ReadDescriptors

SpecDescriptors == InitDescriptors /\ [][NextDescriptors]_vars

(* Cell.finalizeTree.  An async call runs until it waits: within the call   *)
(* itself finalizeTree goes down through the references to the first cell   *)
(* without references left to visit and finalize of that cell runs up to    *)
(* `await sha256(repr)`, with the hashes reset to null and the depth        *)
(* written.  When the digest arrives it is stored and finalize runs on to   *)
(* its end; `await this.finalize()` resumes in a later turn and             *)
(* finalizeTree of the cell returns; the caller's `await                    *)
(* this.refs[k].finalizeTree()` resumes in a turn after that and the caller *)
(* runs on to its next wait.  The cells of these trees are Ordinary cells   *)
(* with one slot.  A call is the stack of the cells it is in (each with the *)
(* next reference to visit), where it waits, the digest it waits for, and   *)
(* how many times it has run finalize on each cell.                         *)
NewPlainCell ==
    /\ calls = <<>>
    /\ Len(heap) < MaxTreeCells
    /\ \E refs \in RefSeqs(Len(heap)) :
          heap' = Append(heap, NewCellRec(TreeLeafPayload, refs, FALSE))
    /\ UNCHANGED <<last, boc, dec, calls>>

(* for (let k in this.refs) await this.refs[k].finalizeTree(), down to the  *)
(* cell whose finalize comes next                                           *)
RECURSIVE Descend(_, _)
Descend(h, stack) ==
    LET top == stack[Len(stack)]
    IN IF top.k <= Len(h[top.id].refs)
       THEN Descend(h, Append([stack EXCEPT ![Len(stack)].k = top.k + 1],
                              [id |-> h[top.id].refs[top.k], k |-> 1]))
       ELSE stack

(* a call runs from the cell on top of its stack to the next wait: the      *)
(* heap and the call after it (w is how far finalize of the cell ran: to    *)
(* the wait for a digest, or to its end without a wait, after which         *)
(* `await this.finalize()` waits for its turn); a call that threw is over   *)
Waiting(h, call, stack, id, w) ==
    [heap |-> [h EXCEPT ![id] = Landed(w)], id |-> id, reset |-> w.reset,
     call |-> IF w.pc = "failed" THEN <<>>
              ELSE <<[kind |-> "finalizeTree", stack |-> stack,
                      pc |-> IF w.pc = "digest" THEN "digest" ELSE "finalized",
                      at |-> WaitAt(w), count |-> [call.count EXCEPT ![id] = @ + 1]]>>]

Ran(h, call, stack) ==
    Waiting(h, call, stack, stack[Len(stack)].id, FinBegin(h, stack[Len(stack)].id))

RunCall(h, call) == Ran(h, call, Descend(h, call.stack))

(* root.finalizeTree() on the newest cell is called and has run to its      *)
(* first wait                                                               *)
TreeCalled(run) ==
    /\ heap' = run.heap
    /\ calls' = Orphaned(calls, run.id, run.reset) \o run.call
    /\ UNCHANGED <<last, boc, dec>>

FinalizeTreeCall ==
    /\ Len(heap) > 0
    /\ Len(calls) < MaxCalls
    /\ TreeCalled(RunCall(heap, [stack |-> <<[id |-> Len(heap), k |-> 1]>>,
                                 count |-> [id \in DOMAIN heap |-> 0]]))

(* the digest arrives: this.hashes[dest_i] = ..., and finalize runs on (to  *)
(* w): to its next wait, to its end, or to an error that ends the call      *)
Returned(call, w) ==
    IF w.pc = "digest" THEN <<[call EXCEPT !.at = WaitAt(w)]>>
    ELSE IF w.pc = "failed" THEN <<>>
    ELSE <<[call EXCEPT !.pc = "finalized"]>>

TreeDigestRan(t, id, w) ==
    /\ ~ToBocRuns
    /\ heap' = [heap EXCEPT ![id] = Landed(w)]
    /\ calls' = SubSeq(calls, 1, t - 1) \o Returned(calls[t], w)
                   \o SubSeq(calls, t + 1, Len(calls))
    /\ UNCHANGED <<last, boc, dec>>

TreeDigest ==
    \E t \in DOMAIN calls :
       /\ calls[t].kind = "finalizeTree"
       /\ calls[t].pc = "digest"
       /\ TreeDigestRan(t, calls[t].stack[Len(calls[t].stack)].id,
                        FinResume(heap, calls[t].stack[Len(calls[t].stack)].id, calls[t].at))

(* `await this.finalize()` resumes: finalizeTree of the cell returns to the *)
(* call that waits for it, or the whole call is over                        *)
TreeReturned(call, rest) ==
    IF rest = <<>> THEN <<>> ELSE <<[call EXCEPT !.stack = rest, !.pc = "run"]>>

TreeAwaited ==
    \E t \in DOMAIN calls :
       /\ calls[t].kind = "finalizeTree"
       /\ calls[t].pc = "finalized"
       /\ calls' = SubSeq(calls, 1, t - 1)
                      \o TreeReturned(calls[t], SubSeq(calls[t].stack, 1, Len(calls[t].stack) - 1))
                      \o SubSeq(calls, t + 1, Len(calls))
       /\ UNCHANGED <<heap, last, boc, dec>>

(* `await this.refs[k].finalizeTree()` resumes: the call runs on to its     *)
(* next wait                                                                *)
TreeRan(t, run) ==
    /\ heap' = run.heap
    /\ calls' = SubSeq(Orphaned(calls, run.id, run.reset), 1, t - 1) \o run.call
                   \o SubSeq(Orphaned(calls, run.id, run.reset), t + 1, Len(calls))
    /\ UNCHANGED <<last, boc, dec>>

TreeRun ==
    \E t \in DOMAIN calls :
       /\ calls[t].kind = "finalizeTree"
       /\ calls[t].pc = "run"
       /\ TreeRan(t, RunCall(heap, calls[t]))

NextTree ==
    \/ NewPlainCell
    \/ FinalizeTreeCall
    \/ TreeDigest
    \/ TreeAwaited
    \/ TreeRun

SpecTree == Init /\ [][NextTree]_vars

-----------------------------------------------------------------------------
(* Claims *)

(* C5: no finalized cell has a stored depth of 1024 or more at any level:   *)
(* finalize of a cell over a child of depth 1023, for which 1 + the maximal *)
(* child depth reaches 1024, ends with "Depth is too big".                  *)
C5_NoStoredDepth1024 ==
    \A id \in DOMAIN heap :
        /\ heap[id].fin = "ok" =>
              \A s \in DOMAIN heap[id].depth : heap[id].depth[s] < 1024
        /\ (heap[id].fin # "new" /\ heap[id].type = OrdinaryCell
              /\ \E k \in DOMAIN heap[id].refs : getDepth(heap[heap[id].refs[k]], 0) = 1023)
           => heap[id].err = "Depth is too big"

(* C6: after a successful finalize, every stored depth slot of a cell is 0  *)
(* when the cell has no children and otherwise 1 + the maximum of the       *)
(* children's depths at the level the slot stands for (one level up for a   *)
(* MerkleProof or MerkleUpdate parent).  (For cells that are finalized by   *)
(* one awaited call and not written after.)                                 *)
C6_SlotOfLevel(c, L) ==
    IF c.type = PrunnedBranchCell THEN 1
    ELSE Cardinality({b \in 1..L : (c.levelMask \div Pow2(b - 1)) % 2 = 1}) + 1

C6_StoredLevels(c) ==
    {L \in 0..3 : /\ L = 0 \/ (c.levelMask \div Pow2(L - 1)) % 2 = 1
                  /\ L <= getLevel(c)
                  /\ c.type = PrunnedBranchCell => L = getLevel(c)}

C6_ChildDepths(c, L) ==
    {getDepth(heap[c.refs[k]], IF c.type \in {MerkleProofCell, MerkleUpdateCell} THEN L + 1 ELSE L)
        : k \in DOMAIN c.refs}

C6_DepthLaw ==
    \A id \in DOMAIN heap :
        LET c == heap[id] IN
        c.fin = "ok" =>
           /\ Len(c.depth) = Cardinality(C6_StoredLevels(c))
           /\ \A L \in C6_StoredLevels(c) :
                 LET d == c.depth[C6_SlotOfLevel(c, L)]
                     ds == C6_ChildDepths(c, L)
                 IN IF c.refs = <<>> THEN d = 0
                    ELSE /\ \A x \in ds : x >= 0 /\ d >= x + 1
                         /\ \E x \in ds : d = x + 1

(* C6 witness: a finalized MerkleProof whose child has different depths at  *)
(* level 0 and level 1, and a finalized Ordinary cell with two children of  *)
(* different depths.                                                        *)
C6_Witness ==
    /\ \E id \in DOMAIN heap :
          /\ heap[id].fin = "ok" /\ heap[id].type = MerkleProofCell
          /\ getDepth(heap[heap[id].refs[1]], 0) # getDepth(heap[heap[id].refs[1]], 1)
    /\ \E id \in DOMAIN heap :
          /\ heap[id].fin = "ok" /\ heap[id].type = OrdinaryCell /\ Len(heap[id].refs) = 2
          /\ getDepth(heap[heap[id].refs[1]], 0) # getDepth(heap[heap[id].refs[2]], 0)

(* C9: finalize of a MerkleProof cell succeeds only if its embedded hash    *)
(* and depth equal its single child's level-0 hash and depth, and fails     *)
(* with a mismatch error otherwise; finalize of a MerkleUpdate cell         *)
(* succeeds only if both embedded hash/depth pairs equal the level-0        *)
(* hash/depth of the first and the second child.  (The cell has the         *)
(* payload size and reference count of its type, its children have a        *)
(* level-0 hash and depth, and the call is awaited before another cell is   *)
(* finalized or written.)                                                   *)
C9_HasHashDepth(c) == IsBytes(getHash(c, 0)) /\ getDepth(c, 0) >= 0

C9_Proof(c, after) ==
    LET shaped == c.bits.cursor = 280 /\ Len(c.refs) = 1
                  /\ c.refs[1] \in DOMAIN heap /\ C9_HasHashDepth(heap[c.refs[1]])
        child == heap[c.refs[1]]
        match == /\ SubSeq(c.bits.data, 2, 33) = getHash(child, 0)
                 /\ c.bits.data[34] * 256 + c.bits.data[35] = getDepth(child, 0)
    IN /\ after.fin = "ok" => shaped /\ match
       /\ (shaped /\ ~match) =>
             /\ after.fin = "failed"
             /\ after.err \in {"Hash mismatch in a MerkleProof special cell",
                               "Depth mismatch in a MerkleProof special cell"}

C9_Update(c, after) ==
    LET shaped == c.bits.cursor = 552 /\ Len(c.refs) = 2
                  /\ \A k \in 1..2 : c.refs[k] \in DOMAIN heap /\ C9_HasHashDepth(heap[c.refs[k]])
        child0 == heap[c.refs[1]]
        child1 == heap[c.refs[2]]
        match == /\ SubSeq(c.bits.data, 2, 33) = getHash(child0, 0)
                 /\ SubSeq(c.bits.data, 34, 65) = getHash(child1, 0)
                 /\ c.bits.data[66] * 256 + c.bits.data[67] = getDepth(child0, 0)
                 /\ c.bits.data[68] * 256 + c.bits.data[69] = getDepth(child1, 0)
    IN /\ after.fin = "ok" => shaped /\ match
       /\ (shaped /\ ~match) =>
             /\ after.fin = "failed"
             /\ after.err \in {"First hash mismatch in a MerkleUpdate special cell",
                               "Second hash mismatch in a MerkleUpdate special cell",
                               "First depth mismatch in a MerkleUpdate special cell",
                               "Second depth mismatch in a MerkleUpdate special cell"}

C9_MerkleCrossCheck ==
    [][\A id \in DOMAIN heap :
          (heap[id].fin = "new" /\ heap'[id].fin # "new") =>
             /\ heap'[id].type = MerkleProofCell => C9_Proof(heap[id], heap'[id])
             /\ heap'[id].type = MerkleUpdateCell => C9_Update(heap[id], heap'[id])]_vars

(* C9 witness: a MerkleProof that finalized and a MerkleUpdate that failed  *)
(* on its second embedded hash.                                             *)
C9_Witness ==
    /\ \E id \in DOMAIN heap : heap[id].fin = "ok" /\ heap[id].type = MerkleProofCell
    /\ \E id \in DOMAIN heap :
          heap[id].err = "Second hash mismatch in a MerkleUpdate special cell"

(* C10: reading a cell's hash or depth before the cell has been finalized   *)
(* is an error; it never returns a value.                                   *)
C10_ReadBeforeFinalizeThrows ==
    (last.op \in {"getHash", "getDepth"} /\ heap[last.id].fin = "new") => last.threw

(* C1: for every finalized tree and every encode configuration, toBoc       *)
(* returns a container and fromBoc of that container succeeds with one root *)
(* whose hash at every level is the hash of the tree's root at that level.  *)
C1_SameRoot(d) ==
    /\ d.status = "ok"
    /\ Len(d.roots) = 1
    /\ d.roots[1] \in DOMAIN d.cells
    /\ \A level \in 0..3 :
          getHash(d.cells[d.roots[1]], level) = getHash(heap[boc.root], level)

C1_RoundTrip ==
    boc.phase \in {"done", "failed"}
    => (boc.phase = "done" /\ C1_SameRoot(deserializeBoc(boc.out)))

(* C2: when toBoc has sorted the cells, every unique cell of the tree       *)
(* stands once in the final order, and every child of a cell stands at a    *)
(* strictly greater index than the cell.                                    *)
C2_Place(hash) == CHOOSE i \in DOMAIN boc.order : boc.order[i].hash = hash

C2_ChildrenAfterParents ==
    boc.phase \in {"done", "failed"}
    => /\ \A id \in ReachFrom(heap, boc.root) :
             Cardinality({i \in DOMAIN boc.order :
                             boc.order[i].hash = getHash(heap[id], 0)}) = 1
       /\ \A i \in DOMAIN boc.order :
             \A k \in DOMAIN heap[boc.order[i].cell].refs :
                C2_Place(getHash(heap[heap[boc.order[i].cell].refs[k]], 0)) > i

(* C2 witness: toBoc has finished on a tree with a shared cell after scans  *)
(* that moved cells.                                                        *)
C2_Witness ==
    /\ boc.phase = "done"
    /\ boc.passes >= 3
    /\ Len(boc.order) = MaxCells

(* C3: the fix-up loop of toBoc terminates: a toBoc call that has entered   *)
(* the loop leaves it and finishes.                                         *)
C3_FixupTerminates == (boc.phase = "fixup") ~> (boc.phase \in {"done", "failed"})

(* C3 witness: the loop has ended after three scans, the last one without a *)
(* change.                                                                  *)
C3_Witness ==
    /\ boc.phase = "fixup"
    /\ ~boc.changed
    /\ boc.passes = 3

(* C4: a decoded record with a reference index less than or equal to its    *)
(* own position makes fromBoc fail with "Topological order is broken".      *)
C4_BackwardReferenceRejected ==
    (/\ FromBocEnded
     /\ \E ci \in DOMAIN dec.refs : \E ri \in DOMAIN dec.refs[ci] :
           IsNum(dec.refs[ci][ri]) /\ dec.refs[ci][ri] <= ci)
    => (dec.status = "error" /\ dec.err = "Topological order is broken")

(* C7: with the has-checksum flag set, fromBoc succeeds only if the last 4  *)
(* bytes equal the CRC32c of the bytes before them.                         *)
C7_ChecksumEnforced ==
    (/\ dec.status = "ok"
     /\ Len(dec.input) >= 9
     /\ SubSeq(dec.input, 1, 4) = reachBocMagicPrefix
     /\ Bit(dec.input[5], 6) = 1)
    => SubSeq(dec.input, Len(dec.input) - 3, Len(dec.input))
          = crc32c(SubSeq(dec.input, 1, Len(dec.input) - 4))

(* C8: fromBoc of bytes whose 4-byte prefix is not B5EE9C72 never returns a *)
(* result.                                                                  *)
C8_ForeignPrefixRejected ==
    (/\ FromBocEnded
     /\ Len(dec.input) >= 4
     /\ SubSeq(dec.input, 1, 4) # reachBocMagicPrefix)
    => dec.status = "error"


(* C11: for a finalized PrunnedBranch, getHash(level) and getDepth(level)   *)
(* with level equal to the branch's own top level return the hash or depth  *)
(* read from the embedded payload bits, not the slot computed by finalize.  *)
C11_IsPrunnedRead ==
    /\ last.op \in {"getHash", "getDepth"}
    /\ heap[last.id].fin = "ok"
    /\ heap[last.id].type = PrunnedBranchCell

(* the number of levels 1..level that the branch's mask marks *)
C11_MarkedBelow(c, level) == Cardinality({l \in 1..level : Bit(c.levelMask, l - 1) = 1})

(* the k-th embedded hash and depth of the payload, from 0 *)
C11_EmbeddedHash(c, k) == SubSeq(c.bits.data, 3 + 32 * k, 2 + 32 * (k + 1))

C11_EmbeddedDepth(c, k) ==
    LET at == 2 + 32 * C11_MarkedBelow(c, 3) + 2 * k
    IN 256 * c.bits.data[at + 1] + c.bits.data[at + 2]

C11_TopLevelReadsPayload ==
    (C11_IsPrunnedRead /\ last.level = getLevel(heap[last.id]))
    => LET c == heap[last.id]
       IN \E k \in 0..(C11_MarkedBelow(c, 3) - 1) :
             IF last.op = "getHash" THEN last.bytes = C11_EmbeddedHash(c, k)
             ELSE last.num = C11_EmbeddedDepth(c, k)

(* C11 as the code has it: a level that has fewer marked levels below it    *)
(* than the branch has reads the embedded hash or depth of that count; a    *)
(* level at or above the branch's top level returns the one slot that       *)
(* finalize computed.                                                       *)
C11_PrunnedReadLaw ==
    C11_IsPrunnedRead
    => LET c == heap[last.id]
           k == C11_MarkedBelow(c, last.level)
       IN IF k < C11_MarkedBelow(c, 3)
          THEN IF last.op = "getHash" THEN last.bytes = C11_EmbeddedHash(c, k)
               ELSE last.num = C11_EmbeddedDepth(c, k)
          ELSE IF last.op = "getHash" THEN last.bytes = c.hashes[1]
               ELSE last.num = c.depth[1]

(* C11 witness: getHash(2) of a finalized branch of level 2 has returned    *)
(* the slot of finalize, which is not the embedded hash.                    *)
C11_Witness ==
    /\ C11_IsPrunnedRead
    /\ last.op = "getHash"
    /\ getLevel(heap[last.id]) = 2
    /\ last.level = 2
    /\ last.bytes = heap[last.id].hashes[1]
    /\ last.bytes # C11_EmbeddedHash(heap[last.id], 0)


(* C12: fromBoc returns a result only for a container of exactly the        *)
(* length its own header asks for (counters, root list, index when the      *)
(* has-index flag is set, cells data, checksum when the has-checksum flag   *)
(* is set): a shorter or a longer input is an error.                        *)
C12_Field(a, pos, n) ==
    IF pos + n <= Len(a) THEN ReadBE(a, pos + 1, pos + n) ELSE -1

C12_Required(a) ==
    LET s == a[5] % 8
        o == a[6]
        cells == C12_Field(a, 6, s)
        roots == C12_Field(a, 6 + s, s)
        absent == C12_Field(a, 6 + 2 * s, s)
        tot == C12_Field(a, 6 + 3 * s, o)
    IN IF cells < 0 \/ roots < 0 \/ absent < 0 \/ tot < 0 THEN Len(a) + 1
       ELSE 6 + 3 * s + o + roots * s + (IF Bit(a[5], 7) = 1 THEN o * cells ELSE 0)
            + tot + (IF Bit(a[5], 6) = 1 THEN 4 ELSE 0)

C12_SizeEnforced ==
    (/\ dec.status = "ok"
     /\ Len(dec.input) >= 6
     /\ SubSeq(dec.input, 1, 4) = reachBocMagicPrefix)
    => Len(dec.input) = C12_Required(dec.input)


(* C13: during decode, finalize is invoked on a record only when every cell *)
(* it references is a cell of the container that has completed finalize     *)
(* (the records are finalized from the last to the first, so a reference    *)
(* must point to a later record, whose finalize succeeded).                 *)
C13_ChildrenFinalizedFirst ==
    dec.status # "none"
    => \A i \in DOMAIN dec.cells :
          dec.cells[i].fin # "new"
          => \A k \in DOMAIN dec.refs[i] :
                LET r == dec.refs[i][k]
                IN /\ r \in DOMAIN dec.cells
                   /\ r > i
                   /\ dec.cells[r].fin = "ok"


(* C14: the walk of toBoc lists every reachable cell once by its level-0    *)
(* hash, also a cell that two parents reference; the child-hash list of     *)
(* every listed cell holds the hashes of its references; toBoc succeeds;    *)
(* and fromBoc of the container makes one cell per listed hash, which every *)
(* parent of that hash references.                                          *)
C14_ListedOnce ==
    /\ \A i, j \in DOMAIN boc.order :
          boc.order[i].hash = boc.order[j].hash => i = j
    /\ \A id \in ReachFrom(heap, boc.root) :
          \E i \in DOMAIN boc.order : boc.order[i].hash = getHash(heap[id], 0)

C14_ChildHashLists ==
    \A e \in DOMAIN boc.map :
       LET refs == heap[boc.map[e].cell].refs
       IN /\ Len(boc.map[e].childHashList) = Len(refs)
          /\ \A k \in DOMAIN refs :
                boc.map[e].childHashList[k] = getHash(heap[refs[k]], 0)

C14_DecodedShared ==
    /\ dec.status = "ok"
    /\ Len(dec.cells) = Len(boc.order)
    /\ \A i \in DOMAIN dec.cells :
          LET refs == heap[boc.order[i].cell].refs
          IN /\ getHash(dec.cells[i], 0) = boc.order[i].hash
             /\ Len(dec.refs[i]) = Len(refs)
             /\ \A k \in DOMAIN refs :
                   boc.order[dec.refs[i][k]].hash = getHash(heap[refs[k]], 0)

C14_SharedSubtree ==
    /\ boc.phase # "idle" => (C14_ListedOnce /\ C14_ChildHashLists /\ boc.phase # "failed")
    /\ (boc.phase = "done" /\ FromBocEnded /\ dec.input = boc.out)
       => C14_DecodedShared

(* C14 witness: a decoded container in which two children of the root, two  *)
(* different cells, reference the same cell.                                *)
C14_Witness ==
    /\ boc.phase = "done" /\ dec.status = "ok" /\ dec.input = boc.out
    /\ \E a, b \in DOMAIN dec.refs[1] :
          /\ dec.refs[1][a] # dec.refs[1][b]
          /\ \E k \in DOMAIN dec.refs[dec.refs[1][a]], l \in DOMAIN dec.refs[dec.refs[1][b]] :
                dec.refs[dec.refs[1][a]][k] = dec.refs[dec.refs[1][b]][l]


(* C15: in every state of a cell (new, while its finalize waits for a       *)
(* digest, finalized, failed) its hashes and its depths have the same       *)
(* length; after a successful finalize that length is 1 for a PrunnedBranch *)
(* and 1 + the number of set bits among the low 3 bits of levelMask for     *)
(* every other cell, and every slot holds a hash.                           *)
C15_SlotCount(c) ==
    IF c.type = PrunnedBranchCell THEN 1
    ELSE 1 + Cardinality({b \in 0..2 : (c.levelMask \div Pow2(b)) % 2 = 1})

C15_ParallelSlots ==
    \A id \in DOMAIN heap :
       LET c == heap[id]
       IN /\ Len(c.hashes) = Len(c.depth)
          /\ c.fin = "ok"
             => /\ Len(c.hashes) = C15_SlotCount(c)
                /\ \A i \in DOMAIN c.hashes : IsBytes(c.hashes[i]) /\ Len(c.hashes[i]) = hash_bytes
                /\ \A i \in DOMAIN c.depth : c.depth[i] >= 0

(* C16: after a successful finalize the levelMask of a cell is the value    *)
(* its type prescribes: the OR of the children's level masks for Ordinary   *)
(* (0 without children), the child's mask shifted right by one for          *)
(* MerkleProof, the OR of both children's masks shifted right by one for    *)
(* MerkleUpdate, payload byte 1 for PrunnedBranch; for the cells the        *)
(* program builds and for the cells decode makes.                           *)
RECURSIVE C16_OrMasks(_, _, _)
C16_OrMasks(h, refs, k) ==
    IF k > Len(refs) THEN 0
    ELSE BitOr8(h[refs[k]].levelMask % 256, C16_OrMasks(h, refs, k + 1))

C16_Prescribed(h, id) ==
    LET c == h[id]
    IN CASE c.type = OrdinaryCell -> C16_OrMasks(h, c.refs, 1)
         [] c.type = PrunnedBranchCell -> c.bits.data[2]
         [] c.type = MerkleProofCell -> h[c.refs[1]].levelMask \div 2
         [] c.type = MerkleUpdateCell -> C16_OrMasks(h, c.refs, 1) \div 2
         [] OTHER -> c.levelMask

C16_MaskAsPrescribed(h) ==
    \A id \in DOMAIN h : h[id].fin = "ok" => h[id].levelMask = C16_Prescribed(h, id)

C16_LevelMaskPrescribed ==
    /\ C16_MaskAsPrescribed(heap)
    /\ dec.status # "none" => C16_MaskAsPrescribed(dec.cells)


(* C17: in every container toBoc emits, with s the reference-index width of *)
(* the header, the cell count is below 256^s and is the count the header    *)
(* tells, every child reference of every record is s bytes long, and the    *)
(* total cells size of the header is the sum of the lengths of the records. *)
C17_RecordLengths ==
    Tuple([i \in DOMAIN boc.order |-> Len(serializeForBoc(heap, boc.order[i].cell, boc.order))])

C17_ReferenceWidth ==
    boc.phase = "done"
    => LET s == boc.out[5] % 8
           o == boc.out[6]
           lengths == C17_RecordLengths
       IN /\ Len(boc.order) < Pow2(8 * s)
          /\ ReadBE(boc.out, 7, 6 + s) = Len(boc.order)
          /\ \A i \in DOMAIN boc.order :
                LET c == heap[boc.order[i].cell]
                IN /\ \A k \in DOMAIN c.refs :
                         Len(RefIndexBytes(FinalIndex(boc.order, getHash(heap[c.refs[k]], 0)))) = s
                   /\ lengths[i] = 2 + Len(c.bits.data) + s * Len(c.refs)
          /\ ReadBE(boc.out, 7 + 3 * s, 6 + 3 * s + o) = SumRange(lengths, 1, Len(lengths))


(* C17 witness: toBoc has emitted a container of WideFit cells, the most    *)
(* that a count of s bytes tells, in which a record references the cell of  *)
(* the greatest index.                                                      *)
C17_Witness ==
    /\ boc.phase = "done"
    /\ Len(boc.order) = WideFit
    /\ boc.out[5] % 8 = s_bytes
    /\ \E i \in DOMAIN boc.order :
          \E k \in DOMAIN heap[boc.order[i].cell].refs :
             FinalIndex(boc.order, getHash(heap[heap[boc.order[i].cell].refs[k]], 0)) = WideFit - 1

(* C18: during a finalizeTree call each cell's hashes are written by        *)
(* finalize at most once, and a cell that has completed finalize never      *)
(* shows hashes that are empty or null afterwards, whatever other           *)
(* finalizeTree call runs between its steps.                                *)
C18_WriteOnce ==
    /\ \A t \in DOMAIN calls : \A id \in DOMAIN calls[t].count : calls[t].count[id] <= 1
    /\ \A id \in DOMAIN heap :
          heap[id].fin = "ok"
          => /\ heap[id].hashes # <<>>
             /\ \A i \in DOMAIN heap[id].hashes : IsBytes(heap[id].hashes[i])

(* C19: toBoc leaves every cell of the tree as it was: no step of toBoc, on *)
(* a tree built by the program or on a tree that fromBoc returned, changes  *)
(* the levelMask, type, hashes, depths, bits or refs of a cell.             *)
C19_SameCells(before, after) ==
    /\ Len(after) = Len(before)
    /\ \A id \in DOMAIN before :
          /\ after[id].levelMask = before[id].levelMask
          /\ after[id].type = before[id].type
          /\ after[id].hashes = before[id].hashes
          /\ after[id].depth = before[id].depth
          /\ after[id].bits = before[id].bits
          /\ after[id].refs = before[id].refs

C19_ToBocStep ==
    /\ boc.phase = "fixup" => C19_SameCells(heap, heap')
    /\ boc.phase = "idle" /\ boc'.phase = "fixup" => C19_SameCells(heap, heap')
    /\ dec.status = "ok" /\ dec'.status = "encoded" => C19_SameCells(dec.cells, heap')

C19_EncodingKeepsCells == [][C19_ToBocStep]_vars


(* C20: the descriptor bytes an encoded cell starts with, d1 = refs +       *)
(* 8*exotic + 32*levelMask with the level mask getLevelMask() gives (the    *)
(* cell stores it) and d2 = ceil(n/8) + floor(n/8), are read back to        *)
(* the cell's number of references (0..4), exotic flag and level mask, a    *)
(* payload of ceil(n/8) bytes whose last byte counts as fully used exactly  *)
(* when n is a multiple of 8, and no stored hashes; with more than 4 in the *)
(* low three bits of d1 the record is rejected as an absent cell.           *)
C20_Written == heap[2]

C20_Recovered(c, read) ==
    /\ read.ok
    /\ Len(read.cell.refs) = Len(c.refs)
    /\ read.cell.isExotic = c.isExotic
    /\ read.cell.levelMask = c.levelMask
    /\ read.cell.hasHashes = FALSE
    /\ Len(read.cell.bits.data) = (c.bits.cursor + 7) \div 8
    /\ (read.cell.bits.cursor = 8 * Len(read.cell.bits.data)) <=> (c.bits.cursor % 8 = 0)
    /\ read.residue = <<>>

C20_Absent(read) == ~read.ok /\ read.err = "Cannot deserialize absent cell"

C20_DescriptorRoundTrip ==
    dec.status = "cell"
    => /\ boc.out[1] = Len(C20_Written.refs) + (IF C20_Written.isExotic THEN 8 ELSE 0)
                          + 32 * C20_Written.levelMask
       /\ boc.out[2] = ((C20_Written.bits.cursor + 7) \div 8) + (C20_Written.bits.cursor \div 8)
       /\ IF boc.out[1] % 8 > 4 THEN C20_Absent(dec.read)
          ELSE C20_Recovered(C20_Written, dec.read)

C20_Witness ==
    /\ dec.status = "cell"
    /\ C20_Written.bits.cursor = MaxBitLength
    /\ Len(C20_Written.refs) = 4
    /\ C20_Written.isExotic
    /\ C20_Written.levelMask = 7
    /\ C20_Recovered(C20_Written, dec.read)

C20_WitnessAbsent ==
    /\ dec.status = "cell"
    /\ Len(C20_Written.refs) = 5
    /\ C20_Absent(dec.read)


(* C21: the root keeps index 0 through the fix-up loop; in the container    *)
(* toBoc returns the root is the first cell of the final order, the header  *)
(* names one root with index 0, and the final indices of the cells of the   *)
(* index map are the numbers 0..n-1, each once.                             *)
C21_RootHash == getHash(heap[boc.root], 0)

C21_FinalIndices == { boc.map[i].index : i \in DOMAIN boc.map }

C21_RootKeepsIndex ==
    /\ HasKey(boc.map, C21_RootHash)
    /\ boc.map[KeyPos(boc.map, C21_RootHash)].index = 0

C21_Emitted ==
    /\ boc.order[1].cell = boc.root
    /\ boc.order[1].hash = C21_RootHash
    /\ Len(boc.map) = Len(boc.order)
    /\ C21_FinalIndices = 0..(Len(boc.order) - 1)
    /\ \A i, j \in DOMAIN boc.map : boc.map[i].index = boc.map[j].index => i = j
    /\ parseBocHeader(boc.out).ok
    /\ parseBocHeader(boc.out).root_list = <<0>>

C21_RootAtZero ==
    /\ boc.phase \in {"fixup", "done"} => C21_RootKeepsIndex
    /\ boc.phase = "done" => C21_Emitted

C21_Witness ==
    /\ boc.phase = "done"
    /\ Len(boc.order) >= 3
    /\ boc.maxIndex > Len(boc.order)
    /\ C21_RootKeepsIndex
    /\ C21_Emitted


(* C22: when deserializeBoc returns, it returns as many cells as the header *)
(* counts roots, each root is a finalized cell of the decoded array, and    *)
(* every reference of every decoded cell is a finalized cell of that array. *)
C22_IsCell(cells, i) == IsNum(i) /\ i \in DOMAIN cells /\ cells[i].fin = "ok"

C22_RootsAndChildrenDefined ==
    dec.status = "ok"
    => /\ Len(dec.roots) = parseBocHeader(dec.input).roots_num
       /\ \A k \in DOMAIN dec.roots : C22_IsCell(dec.cells, dec.roots[k])
       /\ \A i \in DOMAIN dec.cells :
             /\ dec.cells[i].fin = "ok"
             /\ \A ri \in DOMAIN dec.cells[i].refs :
                   C22_IsCell(dec.cells, dec.cells[i].refs[ri])


=============================================================================
